---- MODULE Spec2Model ----
(***************************************************************************)
(* Authentication and authorization core of linetodo-backend:              *)
(* refresh-token store, auth service, password change, workspace           *)
(* membership service and the request middleware.                          *)
(*                                                                         *)
(* Every request handler is a process that advances from one awaited       *)
(* database call to the next; the database is the shared state.            *)
(***************************************************************************)
EXTENDS Integers, Sequences, FiniteSets, TLC

(***************************************************************************)
(* Bounds of the model                                                     *)
(***************************************************************************)
NumProcs == 2        \* request handlers that can be in flight together
MaxReqs == 3         \* requests started in one behaviour, concurrent service
MaxSeqReqs == 4      \* requests started in one behaviour, one at a time
MaxWsReqs == 4       \* workspace requests started in one behaviour
MaxWs == 1           \* workspaces created in one behaviour
MaxTokens == 3       \* refresh-token secrets generated in one behaviour
MaxTime == 2         \* clock ticks
TTLUnits == 1        \* refresh-token lifetime in clock ticks
MaxDelReqs == 3      \* requests started in one behaviour with user deletions
MaxDeletes == 1      \* users deleted in one behaviour
MaxTodoReqs == 3     \* todo requests started in one behaviour
MaxTodos == 2        \* todos created in one behaviour
MaxLen == 3          \* characters of the refresh-token TTL string
MaxStreams == 2      \* chat streams started in one behaviour
MaxStreamTokens == 2 \* tokens the model generates for one stream

Procs == 1..NumProcs
Emails == {"a@x", "b@x"}
UserIds == 1..Cardinality(Emails)
Passwords == {"pw1", "pw2"}
RegPasswords == {"pw1"}          \* every account starts with the same password
Secrets == 0..MaxTokens          \* 0: a secret the server never issued
NULL == -1                       \* SQL NULL / JS null

VARIABLES
  users,          \* table User: sequence of rows, id = position
  refreshTokens,  \* table RefreshToken, keyed by the unique tokenHash
  nextSecret,     \* number of secrets generateRefreshToken has produced + 1
  now,            \* wall clock (new Date())
  started,        \* requests started so far
  sched,          \* the load: how many requests arrive, which handlers serve
  procs,          \* the request handlers
  members,        \* table WorkspaceMember: (workspace, user) -> role
  wsCount,        \* table Workspace: the workspaces are 1..wsCount
  mw,             \* the request a middleware handled last, and what it did
  todos,          \* table Todo: id -> row
  embeddingItems, \* table EmbeddingItem: the todo ids that are tracked
  vectors,        \* the vector index: the todo ids that have a vector
  syncs,          \* the index synchronizations started, in order of start
  log,            \* lines written by console.error
  chatMessages,   \* table ChatMessage: session -> its messages, oldest first
  env,            \* env.JWT_REFRESH_TOKEN_EXPIRY, a string as its characters
  created,        \* what getRefreshTokenExpiry returned last, and when
  resp            \* the response sent last

\* the todo service and its search index
todoVars == <<todos, embeddingItems, vectors, syncs, log>>

\* the chat service and the configuration
restVars == <<todoVars, chatMessages, env, created>>

vars ==
  <<users, refreshTokens, nextSecret, now, started, sched, procs, members,
    wsCount, mw, restVars, resp>>

\* no todo, nothing indexed
InitTodoVars ==
  /\ todos = <<>>
  /\ embeddingItems = {}
  /\ vectors = {}
  /\ syncs = <<>>
  /\ log = 0

ChatSessions == 1..2

\* z.string().default('30d')
DefaultExpiry == <<"3", "0", "d">>

\* no todo, no chat message, the default configuration
InitRest ==
  /\ InitTodoVars
  /\ chatMessages = [c \in ChatSessions |-> <<>>]
  /\ env = DefaultExpiry
  /\ created = <<>>

(***************************************************************************)
(* lib/password, lib/jwt                                                   *)
(***************************************************************************)
hashPassword(pw) == <<"bcrypt", pw>>

verifyPassword(pw, digest) == digest = <<"bcrypt", pw>>

hashRefreshToken(secret) == <<"sha256", secret>>

Hashes == {hashRefreshToken(s) : s \in Secrets}

(***************************************************************************)
(* Refresh-token store (refreshToken.service.ts)                           *)
(*   a row carries two history fields that the table does not have:        *)
(*   parent - the secret whose rotation created the row (0: login/register)*)
(*   stale  - the creating request had passed its credential check before  *)
(*            a password change of the owner committed                     *)
(*   chg    - the row existed when a password change of its owner committed*)
(***************************************************************************)
NoToken ==
  [exists |-> FALSE, userId |-> 0, expiresAt |-> 0, revokedAt |-> NULL,
   parent |-> 0, stale |-> FALSE, chg |-> FALSE]

\* variant: the lifetime is not added, the token expires as it is created
getRefreshTokenExpiry_Now(t) == t

getRefreshTokenExpiry(t) == t + TTLUnits

\* what is left of a deleted User row: ids are positions in the table, so
\* the position of a deleted row stays taken
Gone == [email |-> "", passwordHash |-> <<>>]

UserExists(us, uid) == uid \in 1..Len(us) /\ us[uid] # Gone

\* outcome of client.refreshToken.create: "ok", "P2003" (no such user) or
\* the injected failure of the statement
createOutcome(us, uid, fault) ==
  IF fault # "none" THEN fault
  ELSE IF ~UserExists(us, uid) THEN "P2003"
  ELSE "ok"

\* status the error of createRefreshToken carries (0: none set)
createErrorStatus(outcome) == IF outcome = "P2003" THEN 404 ELSE 0

\* variant: one session per user, the new record replaces the active ones
createRefreshToken_SingleSession(store, uid, secret, t, parent, stale) ==
  [h \in DOMAIN store |->
     IF h = hashRefreshToken(secret)
     THEN [exists |-> TRUE, userId |-> uid, expiresAt |-> getRefreshTokenExpiry(t),
           revokedAt |-> NULL, parent |-> parent, stale |-> stale, chg |-> FALSE]
     ELSE IF store[h].exists /\ store[h].userId = uid /\ store[h].revokedAt = NULL
     THEN [store[h] EXCEPT !.revokedAt = t]
     ELSE store[h]]

createRefreshToken(store, uid, secret, t, parent, stale) ==
  [store EXCEPT ![hashRefreshToken(secret)] =
     [exists |-> TRUE, userId |-> uid, expiresAt |-> getRefreshTokenExpiry(t),
      revokedAt |-> NULL, parent |-> parent, stale |-> stale, chg |-> FALSE]]

\* variant: the revokedAt test is missing
findRefreshToken_NoRevokedCheck(store, h, t, fault) ==
  IF fault # "none"
  THEN IF fault \in {"ECONNREFUSED", "ETIMEDOUT", "ENOTFOUND"}
       THEN "null" ELSE "throw"
  ELSE IF ~store[h].exists THEN "null"
  ELSE IF store[h].expiresAt < t THEN "null"
  ELSE "found"

\* "found", "null" or "throw"
findRefreshToken(store, h, t, fault) ==
  IF fault # "none"
  THEN IF fault \in {"ECONNREFUSED", "ETIMEDOUT", "ENOTFOUND"}
       THEN "null" ELSE "throw"
  ELSE IF ~store[h].exists THEN "null"
  ELSE IF store[h].expiresAt < t THEN "null"
  ELSE IF store[h].revokedAt # NULL THEN "null"
  ELSE "found"

\* variant: the update is dropped
revokeRefreshToken_Dropped(store, h, t) == store

\* variant: the where clause lacks revokedAt: null
revokeRefreshToken_Overwrite(store, h, t) ==
  IF store[h].exists THEN [store EXCEPT ![h].revokedAt = t] ELSE store

revokeRefreshToken(store, h, t) ==
  IF store[h].exists /\ store[h].revokedAt = NULL
  THEN [store EXCEPT ![h].revokedAt = t]
  ELSE store

\* variant: update instead of updateMany, a single row is revoked
revokeAllUserTokens_One(store, uid, t) ==
  LET act == {h \in DOMAIN store : store[h].exists /\ store[h].userId = uid
                                     /\ store[h].revokedAt = NULL}
  IN IF act = {} THEN store
     ELSE [store EXCEPT ![CHOOSE h \in act : \A g \in act : h[2] <= g[2]].revokedAt = t]

revokeAllUserTokens(store, uid, t) ==
  [h \in DOMAIN store |->
     IF store[h].exists /\ store[h].userId = uid /\ store[h].revokedAt = NULL
     THEN [store[h] EXCEPT !.revokedAt = t]
     ELSE store[h]]

\* variant: the revoke runs on the global client, outside the transaction
rotateRefreshToken_NoTx(store, oldHash, newSecret, uid, tRev, t, outcome, stale) ==
  IF outcome = "ok"
  THEN createRefreshToken(revokeRefreshToken(store, oldHash, tRev), uid,
                          newSecret, t, oldHash[2], stale)
  ELSE revokeRefreshToken(store, oldHash, tRev)

\* variant: sliding sessions, the rotation renews the expiry of the old record
rotateRefreshToken_Sliding(store, oldHash, newSecret, uid, tRev, t, outcome, stale) ==
  IF outcome = "ok"
  THEN createRefreshToken([store EXCEPT ![oldHash].expiresAt = getRefreshTokenExpiry(t) + 1],
                          uid, newSecret, t, oldHash[2], stale)
  ELSE store

\* variant: the arguments newToken and userId are passed in each other's place
rotateRefreshToken_WrongOwner(store, oldHash, newSecret, uid, tRev, t, outcome, stale) ==
  IF outcome = "ok"
  THEN createRefreshToken(revokeRefreshToken(store, oldHash, tRev), newSecret,
                          newSecret, t, oldHash[2], stale)
  ELSE store

\* prisma.$transaction(revoke old; create new): the revoke is part of the
\* transaction, so a failed create rolls it back
rotateRefreshToken(store, oldHash, newSecret, uid, tRev, t, outcome, stale) ==
  IF outcome = "ok"
  THEN createRefreshToken(revokeRefreshToken(store, oldHash, tRev), uid,
                          newSecret, t, oldHash[2], stale)
  ELSE store

(***************************************************************************)
(* User table helpers                                                      *)
(***************************************************************************)
\* prisma.user.findUnique({where: {email}}): the id, or 0
findUserByEmail(us, e) ==
  IF \E i \in 1..Len(us) : us[i].email = e
  THEN CHOOSE i \in 1..Len(us) : us[i].email = e
  ELSE 0

(***************************************************************************)
(* Request handlers                                                        *)
(***************************************************************************)
IdleProc ==
  [pc |-> "idle", op |-> "none", email |-> "", pw |-> "", secret |-> 0,
   uid |-> 0, tRev |-> NULL, late |-> FALSE, stale |-> FALSE, chg |-> FALSE,
   msg |-> ""]

Free(p) == procs[p].pc = "idle"

InFlight(p) == ~Free(p)

\* the response of a finished request, with the history flags of the request
NoResp ==
  [op |-> "none", secret |-> 0, uid |-> 0, status |-> 0, out |-> 0,
   late |-> FALSE, chg |-> FALSE, msg |-> ""]

Response(r, st, tokenOut) ==
  [op |-> r.op, secret |-> r.secret, uid |-> r.uid, status |-> st,
   out |-> tokenOut, late |-> r.late, chg |-> r.chg, msg |-> r.msg]

Creators == {"register", "login", "refresh"}

\* every request that may still call generateRefreshToken has a secret left
SecretsLeft ==
  nextSecret + Cardinality({q \in Procs : InFlight(q) /\ procs[q].op \in Creators})
    <= MaxTokens

\* a request arrives at a free handler
CanStart(p) == Free(p) /\ p \in sched.handlers /\ started < sched.limit

\* the row is write-locked by the open rotation transaction of another request
Locked(h, p) ==
  \E q \in Procs \ {p} :
     /\ procs[q].pc = "rf_create"
     /\ hashRefreshToken(procs[q].secret) = h
     /\ refreshTokens[h].exists /\ refreshTokens[h].revokedAt = NULL

DbFaults == {"none", "ETIMEDOUT", "OTHER"}

StmtFaults == {"none", "OTHER"}

\* the handler sends its response and is free again
Finish(p, r, st, tokenOut) ==
  /\ procs' = [procs EXCEPT ![p] = IdleProc]
  /\ resp' = Response(r, st, tokenOut)

\* the handler goes on to its next awaited call
Continue(p, r) ==
  /\ procs' = [procs EXCEPT ![p] = r]
  /\ UNCHANGED resp

\* status of the response when createRefreshToken threw
createFailedStatus(outcome) ==
  IF createErrorStatus(outcome) # 0 THEN createErrorStatus(outcome) ELSE 500

(* ---- register (auth/service.ts) ---- *)
RegisterCheck(p, e, pw) ==
  /\ CanStart(p) /\ SecretsLeft
  /\ started' = started + 1
  /\ LET me == [IdleProc EXCEPT !.op = "register", !.email = e, !.pw = pw]
     IN IF findUserByEmail(users, e) # 0
        THEN Finish(p, me, 409, 0)
        ELSE Continue(p, [me EXCEPT !.pc = "reg_tx"])
  /\ UNCHANGED <<sched, members, wsCount, mw, restVars, users, refreshTokens, nextSecret, now>>

\* variant: user.create runs on the global client, outside the transaction
registerTx_NoTx(us, store, e, pw, secret, t, outcome) ==
  IF outcome = "ok"
  THEN <<Append(us, [email |-> e, passwordHash |-> hashPassword(pw)]),
         createRefreshToken(store, Len(us) + 1, secret, t, 0, FALSE)>>
  ELSE IF outcome = "P2002" THEN <<us, store>>
  ELSE <<Append(us, [email |-> e, passwordHash |-> hashPassword(pw)]), store>>

\* the transaction of register: user.create, then createRefreshToken(tx)
registerTx(us, store, e, pw, secret, t, outcome) ==
  IF outcome = "ok"
  THEN <<Append(us, [email |-> e, passwordHash |-> hashPassword(pw)]),
         createRefreshToken(store, Len(us) + 1, secret, t, 0, FALSE)>>
  ELSE <<us, store>>

RegisterTx(p, fault) ==
  /\ procs[p].pc = "reg_tx"
  /\ LET dup == findUserByEmail(users, procs[p].email) # 0
         outcome == IF dup THEN "P2002"
                    ELSE createOutcome(Append(users, [email |-> procs[p].email,
                             passwordHash |-> hashPassword(procs[p].pw)]),
                             Len(users) + 1, fault)
         res == registerTx(users, refreshTokens, procs[p].email, procs[p].pw,
                           nextSecret, now, outcome)
     IN /\ users' = res[1]
        /\ refreshTokens' = res[2]
        /\ IF outcome = "ok"
           THEN /\ nextSecret' = nextSecret + 1
                /\ Finish(p, [procs[p] EXCEPT !.uid = Len(users) + 1], 201, nextSecret)
           ELSE /\ nextSecret' = nextSecret
                /\ Finish(p, procs[p], createFailedStatus(outcome), 0)
  /\ UNCHANGED <<sched, members, wsCount, mw, restVars, now, started>>

(* ---- login (auth/service.ts) ---- *)
\* variant: an unknown email is reported as such
loginError_UserNotFound(us, e, pw, fault) ==
  IF fault # "none" THEN [status |-> 401, msg |-> "Invalid email or password"]
  ELSE IF findUserByEmail(us, e) = 0 THEN [status |-> 404, msg |-> "User not found"]
  ELSE IF ~verifyPassword(pw, us[findUserByEmail(us, e)].passwordHash)
       THEN [status |-> 401, msg |-> "Invalid email or password"]
  ELSE [status |-> 0, msg |-> ""]

\* the error login throws before it creates a token (status 0: none): the
\* user lookup threw, no user has the email, the password does not verify
loginError(us, e, pw, fault) ==
  IF fault # "none" THEN [status |-> 401, msg |-> "Invalid email or password"]
  ELSE IF findUserByEmail(us, e) = 0
       THEN [status |-> 401, msg |-> "Invalid email or password"]
  ELSE IF ~verifyPassword(pw, us[findUserByEmail(us, e)].passwordHash)
       THEN [status |-> 401, msg |-> "Invalid email or password"]
  ELSE [status |-> 0, msg |-> ""]

LoginCheck(p, e, pw, fault) ==
  /\ CanStart(p) /\ SecretsLeft
  /\ started' = started + 1
  /\ LET err == loginError(users, e, pw, fault)
         me == [IdleProc EXCEPT !.op = "login"]
     IN IF err.status # 0
        THEN Finish(p, [me EXCEPT !.msg = err.msg], err.status, 0)
        ELSE Continue(p, [me EXCEPT !.pc = "login_create",
                                    !.uid = findUserByEmail(users, e)])
  /\ UNCHANGED <<sched, members, wsCount, mw, restVars, users, refreshTokens, nextSecret, now>>

LoginCreate(p, fault) ==
  /\ procs[p].pc = "login_create"
  /\ LET outcome == createOutcome(users, procs[p].uid, fault)
     IN IF outcome = "ok"
        THEN /\ refreshTokens' = createRefreshToken(refreshTokens, procs[p].uid,
                                    nextSecret, now, 0, procs[p].stale)
             /\ nextSecret' = nextSecret + 1
             /\ Finish(p, procs[p], 200, nextSecret)
        ELSE /\ Finish(p, procs[p], createFailedStatus(outcome), 0)
             /\ UNCHANGED <<refreshTokens, nextSecret>>
  /\ UNCHANGED <<sched, members, wsCount, mw, restVars, users, now, started>>

\* a client presents a secret the server issued, or one it never issued (0)
Issued(secret) == secret < nextSecret

(* ---- refresh (auth/service.ts) ---- *)
\* a successor of the presented secret exists: some refresh(secret) succeeded
HasSuccessor(store, secret) ==
  \E h \in DOMAIN store : store[h].exists /\ store[h].parent = secret

\* the error refresh throws after its lookup (status 0: none): the lookup
\* threw, whatever it threw, or returned null
refreshError(found) ==
  IF found = "found" THEN [status |-> 0, msg |-> ""]
  ELSE [status |-> 401, msg |-> "Invalid or expired refresh token"]

RefreshFind(p, secret, fault) ==
  /\ CanStart(p) /\ SecretsLeft /\ Issued(secret)
  /\ started' = started + 1
  /\ LET h == hashRefreshToken(secret)
         found == findRefreshToken(refreshTokens, h, now, fault)
         err == refreshError(found)
         me == [IdleProc EXCEPT !.op = "refresh", !.secret = secret,
                                !.late = HasSuccessor(refreshTokens, secret),
                                !.chg = refreshTokens[h].chg]
     IN IF err.status = 0
        THEN Continue(p, [me EXCEPT !.pc = "rf_user", !.uid = refreshTokens[h].userId])
        ELSE Finish(p, [me EXCEPT !.msg = err.msg], err.status, 0)
  /\ UNCHANGED <<sched, members, wsCount, mw, restVars, users, refreshTokens, nextSecret, now>>

\* the error refresh throws after it has read the user (status 0: none)
refreshUserError(us, uid, fault) ==
  IF fault # "none"
  THEN [status |-> 401, msg |-> "Invalid or expired refresh token"]
  ELSE IF ~UserExists(us, uid) THEN [status |-> 404, msg |-> "User not found"]
  ELSE [status |-> 0, msg |-> ""]

RefreshUser(p, fault) ==
  /\ procs[p].pc = "rf_user"
  /\ LET err == refreshUserError(users, procs[p].uid, fault)
     IN IF err.status # 0
        THEN Finish(p, [procs[p] EXCEPT !.msg = err.msg], err.status, 0)
        ELSE Continue(p, [procs[p] EXCEPT !.pc = "rf_revoke"])
  /\ UNCHANGED <<sched, members, wsCount, mw, restVars, users, refreshTokens, nextSecret, now, started>>

\* first statement of the rotation transaction: revokeRefreshToken(old, tx)
RefreshRevoke(p) ==
  /\ procs[p].pc = "rf_revoke"
  /\ ~Locked(hashRefreshToken(procs[p].secret), p)
  /\ Continue(p, [procs[p] EXCEPT !.pc = "rf_create", !.tRev = now])
  /\ UNCHANGED <<sched, members, wsCount, mw, restVars, users, refreshTokens, nextSecret, now, started>>

\* second statement, createRefreshToken(new, tx), and commit or rollback
RefreshCreate(p, fault) ==
  /\ procs[p].pc = "rf_create"
  /\ LET outcome == createOutcome(users, procs[p].uid, fault)
     IN /\ refreshTokens' =
             rotateRefreshToken(refreshTokens, hashRefreshToken(procs[p].secret),
                                nextSecret, procs[p].uid, procs[p].tRev, now,
                                outcome, procs[p].stale)
        /\ IF outcome = "ok"
           THEN /\ nextSecret' = nextSecret + 1
                /\ Finish(p, procs[p], 200, nextSecret)
           ELSE /\ nextSecret' = nextSecret
                /\ Finish(p, procs[p], createFailedStatus(outcome), 0)
  /\ UNCHANGED <<sched, members, wsCount, mw, restVars, users, now, started>>

(* ---- logout (auth/service.ts) ---- *)
Logout(p, secret) ==
  /\ CanStart(p) /\ Issued(secret)
  /\ ~Locked(hashRefreshToken(secret), p)
  /\ started' = started + 1
  /\ refreshTokens' = revokeRefreshToken(refreshTokens, hashRefreshToken(secret), now)
  /\ Finish(p, [IdleProc EXCEPT !.op = "logout", !.secret = secret], 200, 0)
  /\ UNCHANGED <<sched, members, wsCount, mw, restVars, users, nextSecret, now>>

(* ---- changeUserPassword (users/service.ts) ---- *)
\* the error changeUserPassword throws before its transaction (status 0: none)
changePasswordError(us, uid, cur) ==
  IF ~UserExists(us, uid) THEN [status |-> 404, msg |-> "User not found"]
  ELSE IF ~verifyPassword(cur, us[uid].passwordHash)
       THEN [status |-> 400, msg |-> "Current password is incorrect"]
  ELSE [status |-> 0, msg |-> ""]

\* variant: the tokens of the user are revoked before the current password is
\* verified
ChangePwCheck_RevokeFirst(p, uid, cur, new) ==
  /\ CanStart(p)
  /\ started' = started + 1
  /\ refreshTokens' = revokeAllUserTokens(refreshTokens, uid, now)
  /\ LET err == changePasswordError(users, uid, cur)
         me == [IdleProc EXCEPT !.op = "changePassword", !.uid = uid]
     IN IF err.status # 0
        THEN Finish(p, [me EXCEPT !.msg = err.msg], err.status, 0)
        ELSE Continue(p, [me EXCEPT !.pc = "cp_tx", !.pw = new])
  /\ UNCHANGED <<sched, members, wsCount, mw, restVars, users, nextSecret, now>>

ChangePwCheck(p, uid, cur, new) ==
  /\ CanStart(p)
  /\ started' = started + 1
  /\ LET err == changePasswordError(users, uid, cur)
         me == [IdleProc EXCEPT !.op = "changePassword", !.uid = uid]
     IN IF err.status # 0
        THEN Finish(p, [me EXCEPT !.msg = err.msg], err.status, 0)
        ELSE Continue(p, [me EXCEPT !.pc = "cp_tx", !.pw = new])
  /\ UNCHANGED <<sched, members, wsCount, mw, restVars, users, refreshTokens, nextSecret, now>>

\* requests that hold credentials of user uid checked before this instant
PastCheck(q, uid) ==
  /\ procs[q].uid = uid
  /\ procs[q].pc \in {"login_create", "rf_user", "rf_revoke", "rf_create"}

\* the transaction of changeUserPassword: user.update, revokeAllUserTokens(tx)
changeUserPasswordTx(us, store, uid, new, t) ==
  <<[us EXCEPT ![uid].passwordHash = hashPassword(new)],
    revokeAllUserTokens(store, uid, t)>>

ChangePwTx(p) ==
  /\ procs[p].pc = "cp_tx"
  /\ \A h \in Hashes : refreshTokens[h].userId = procs[p].uid => ~Locked(h, p)
  /\ LET uid == procs[p].uid
         res == changeUserPasswordTx(users, refreshTokens, uid, procs[p].pw, now)
     IN IF ~UserExists(users, uid)
        THEN \* tx.user.update finds no row and throws: rollback
             /\ Finish(p, procs[p], 500, 0)
             /\ UNCHANGED <<users, refreshTokens>>
        ELSE /\ users' = res[1]
             /\ refreshTokens' =
                  [h \in Hashes |->
                     IF refreshTokens[h].exists /\ refreshTokens[h].userId = uid
                     THEN [res[2][h] EXCEPT !.chg = TRUE] ELSE res[2][h]]
             /\ procs' = [q \in Procs |->
                            IF q = p THEN IdleProc
                            ELSE IF PastCheck(q, uid) THEN [procs[q] EXCEPT !.stale = TRUE]
                            ELSE procs[q]]
             /\ resp' = Response(procs[p], 200, 0)
  /\ UNCHANGED <<sched, members, wsCount, mw, restVars, nextSecret, now, started>>

(* ---- the clock ---- *)
Tick ==
  /\ now < MaxTime
  /\ now' = now + 1
  /\ UNCHANGED <<sched, members, wsCount, mw, restVars, users, refreshTokens, nextSecret,
                 started, procs, resp>>

(***************************************************************************)
(* The auth service under concurrent requests                              *)
(***************************************************************************)
InitAuth ==
  /\ users = <<>>
  /\ refreshTokens = [h \in Hashes |-> NoToken]
  /\ nextSecret = 1
  /\ now = 0
  /\ started = 0
  /\ procs = [p \in Procs |-> IdleProc]
  /\ sched = [limit |-> MaxReqs, handlers |-> Procs]
  /\ members = <<>>
  /\ wsCount = 0
  /\ mw = <<>>
  /\ resp = NoResp
  /\ InitRest

AuthStart(p) ==
  \/ \E e \in Emails, pw \in RegPasswords : RegisterCheck(p, e, pw)
  \/ \E e \in Emails, pw \in Passwords, f \in StmtFaults : LoginCheck(p, e, pw, f)
  \/ \E s \in Secrets, f \in DbFaults : RefreshFind(p, s, f)
  \/ \E s \in Secrets : Logout(p, s)
  \/ \E u \in UserIds, cur \in Passwords, new \in Passwords :
        ChangePwCheck(p, u, cur, new)

AuthStep(p) ==
  \/ \E f \in StmtFaults : RegisterTx(p, f)
  \/ \E f \in StmtFaults : LoginCreate(p, f)
  \/ \E f \in StmtFaults : RefreshUser(p, f)
  \/ RefreshRevoke(p)
  \/ \E f \in StmtFaults : RefreshCreate(p, f)
  \/ ChangePwTx(p)

NextAuth ==
  \/ \E p \in Procs : AuthStart(p)
  \/ \E p \in Procs : AuthStep(p)
  \/ Tick

SpecAuth == InitAuth /\ [][NextAuth]_vars

\* one request at a time: handler 1 runs every request to its end before the
\* next one arrives
InitAuthSeq ==
  /\ users = <<>>
  /\ refreshTokens = [h \in Hashes |-> NoToken]
  /\ nextSecret = 1
  /\ now = 0
  /\ started = 0
  /\ procs = [p \in Procs |-> IdleProc]
  /\ sched = [limit |-> MaxSeqReqs, handlers |-> {1}]
  /\ members = <<>>
  /\ wsCount = 0
  /\ mw = <<>>
  /\ resp = NoResp
  /\ InitRest

SpecAuthSeq == InitAuthSeq /\ [][NextAuth]_vars

(***************************************************************************)
(* The auth service while user rows are deleted from the database          *)
(***************************************************************************)
\* prisma.user.delete({where: {id}}) issued outside the auth service; the
\* rows that reference the user go with it
DeleteUser(uid) ==
  /\ UserExists(users, uid)
  /\ Cardinality({i \in 1..Len(users) : users[i] = Gone}) < MaxDeletes
  /\ \A h \in Hashes : refreshTokens[h].userId = uid => ~Locked(h, 0)
  /\ users' = [users EXCEPT ![uid] = Gone]
  /\ refreshTokens' =
       [h \in Hashes |->
          IF refreshTokens[h].exists /\ refreshTokens[h].userId = uid
          THEN NoToken ELSE refreshTokens[h]]
  /\ UNCHANGED <<sched, members, wsCount, mw, restVars, nextSecret, now, started, procs, resp>>

InitAuthDel ==
  /\ users = <<>>
  /\ refreshTokens = [h \in Hashes |-> NoToken]
  /\ nextSecret = 1
  /\ now = 0
  /\ started = 0
  /\ procs = [p \in Procs |-> IdleProc]
  /\ sched = [limit |-> MaxDelReqs, handlers |-> {1}]
  /\ members = <<>>
  /\ wsCount = 0
  /\ mw = <<>>
  /\ resp = NoResp
  /\ InitRest

NextAuthDel ==
  \/ NextAuth
  \/ \E u \in UserIds : DeleteUser(u)

SpecAuthDel == InitAuthDel /\ [][NextAuthDel]_vars

(***************************************************************************)
(* Properties of the refresh-token lifecycle                               *)
(***************************************************************************)
\* C1: no-reuse. A refresh(t) that is called after some refresh(t) has
\* succeeded (a successor of t exists at the call) is answered 401 at its
\* lookup; it never gets past the lookup.
C1_NoReuse ==
  /\ \A p \in Procs : ~procs[p].late
  /\ (resp.op = "refresh" /\ resp.late) => resp.status = 401

C1_Witness == resp.op = "refresh" /\ resp.late /\ resp.status = 401

Successors(secret) ==
  {h \in Hashes : refreshTokens[h].exists /\ refreshTokens[h].parent = secret}

\* C2: concurrent refresh calls that present the same token yield at most one
\* successor token: one call succeeds, the other fails.
C2_SingleSuccessor ==
  \A s \in 1..MaxTokens : Cardinality(Successors(s)) <= 1

\* C3: rotateRefreshToken is all-or-nothing. When the rotation transaction of
\* a refresh ends, either it succeeded, the old token is revoked and the new
\* record exists, or it failed, every existing record is as it was before and
\* no record was added.
C3_RotateAtomic ==
  [][\A p \in Procs :
       (procs[p].pc = "rf_create" /\ procs'[p].pc = "idle") =>
          LET old == hashRefreshToken(procs[p].secret)
          IN \/ /\ resp'.status = 200
                /\ refreshTokens'[old].revokedAt # NULL
                /\ refreshTokens'[hashRefreshToken(resp'.out)].exists
                /\ ~refreshTokens[hashRefreshToken(resp'.out)].exists
             \/ /\ resp'.status # 200
                /\ refreshTokens' = refreshTokens]_vars

\* a rotation failed at the create and the presented token is still active
C3_Witness ==
  /\ resp.op = "refresh" /\ resp.status = 500
  /\ refreshTokens[hashRefreshToken(resp.secret)].exists
  /\ refreshTokens[hashRefreshToken(resp.secret)].revokedAt = NULL

\* C4: changePassword invalidates every previously issued refresh token of the
\* user: every record that existed when the change committed is revoked, a
\* refresh presenting such a token is answered 401, and when the change has
\* returned the user has no record with revokedAt null.
C4_PasswordChangeRevokesAll ==
  /\ \A h \in Hashes : refreshTokens[h].chg => refreshTokens[h].revokedAt # NULL
  /\ \A p \in Procs : ~procs[p].chg
  /\ (resp.op = "refresh" /\ resp.chg) => resp.status = 401
  /\ (resp.op = "changePassword" /\ resp.status = 200)
     => \A h \in Hashes :
           (refreshTokens[h].exists /\ refreshTokens[h].userId = resp.uid)
           => refreshTokens[h].revokedAt # NULL

\* two sessions of one user were revoked by the change and a refresh with one
\* of them was rejected
C4_Witness ==
  \E h1, h2 \in Hashes :
     /\ resp.op = "refresh" /\ resp.chg /\ resp.status = 401
     /\ h1 # h2 /\ refreshTokens[h1].chg /\ refreshTokens[h2].chg
     /\ refreshTokens[h1].userId = refreshTokens[h2].userId
     /\ h1 = hashRefreshToken(resp.secret)

\* C5: after a password change has completed, no refresh token obtained by a
\* refresh or login that had passed its credential check before the change
\* is active.
C5_NoStaleSession ==
  \A h \in Hashes :
     ~(refreshTokens[h].exists /\ refreshTokens[h].stale
         /\ refreshTokens[h].revokedAt = NULL /\ refreshTokens[h].expiresAt > now)

Usable(h) ==
  /\ refreshTokens[h].exists
  /\ refreshTokens[h].revokedAt = NULL
  /\ refreshTokens[h].expiresAt > now

\* C10: findRefreshToken returns the record exactly when it exists, is not
\* revoked and expires strictly later than the current time.
C10_FindIffUsable ==
  \A h \in Hashes :
     (findRefreshToken(refreshTokens, h, now, "none") = "found") <=> Usable(h)

\* a request arrives in this step
Arrives == started' # started

\* the request that arrives is an op served by handler p: p goes on with it,
\* or has answered it already
Starts(p, op) ==
  /\ Arrives
  /\ procs[p].pc = "idle"
  /\ procs'[p].op = op \/ resp'.op = op

\* C11: a successful refresh(t) returns a token different from t whose record
\* is, at the return, not revoked, not expired and owned by an existing user;
\* and a refresh that presents a usable token and meets no database failure
\* passes its lookup, finds the user and ends its rotation with 200.
C11_RotationYieldsUsable ==
  [][\A p \in Procs :
       /\ (procs[p].pc = "rf_create" /\ procs'[p].pc = "idle" /\ resp'.status = 200)
          => /\ resp'.out # procs[p].secret
             /\ refreshTokens'[hashRefreshToken(resp'.out)].exists
             /\ refreshTokens'[hashRefreshToken(resp'.out)].revokedAt = NULL
             /\ refreshTokens'[hashRefreshToken(resp'.out)].expiresAt > now'
             /\ UserExists(users', refreshTokens'[hashRefreshToken(resp'.out)].userId)
       /\ \A s \in Secrets :
            (Starts(p, "refresh") /\ Usable(hashRefreshToken(s))
               /\ RefreshFind(p, s, "none"))
            => procs'[p].pc = "rf_user"
       /\ RefreshUser(p, "none") => procs'[p].pc = "rf_revoke"
       /\ RefreshCreate(p, "none") => resp'.status = 200]_vars

\* R1 -> R2 -> R3: the token a refresh returned was itself refreshed with
\* success, and the newest token is usable
C11_Witness ==
  \E h \in Hashes :
     /\ resp.op = "refresh" /\ resp.status = 200
     /\ h = hashRefreshToken(resp.out) /\ Usable(h)
     /\ refreshTokens[h].parent # 0
     /\ refreshTokens[hashRefreshToken(refreshTokens[h].parent)].parent # 0

\* the record of h is absent or revoked
Dead(store, h) == ~store[h].exists \/ store[h].revokedAt # NULL

\* C12: after logout(t) has returned, a refresh(t) is answered 401 and never
\* succeeds later: when logout returns the record of t is absent or revoked,
\* a revoked record stays revoked and an absent one is never created for an
\* issued secret, and a refresh that presents such a token ends 401 at its
\* lookup.
C12_LogoutIsFinal ==
  [][/\ \A s \in Secrets :
          (Issued(s) /\ Dead(refreshTokens, hashRefreshToken(s)))
          => Dead(refreshTokens', hashRefreshToken(s))
     /\ \A p \in Procs :
          /\ Starts(p, "logout") =>
               \A s \in Secrets :
                 Logout(p, s) => Dead(refreshTokens', hashRefreshToken(s))
          /\ Starts(p, "refresh") =>
               \A s \in Secrets :
                 Dead(refreshTokens, hashRefreshToken(s)) =>
                   \A f \in DbFaults :
                     RefreshFind(p, s, f)
                     => (procs'[p].pc = "idle" /\ resp'.status = 401)]_vars

\* a refresh was answered 401 for an unexpired token that only a logout can
\* have revoked: it has no successor and no password change touched it
C12_Witness ==
  /\ resp.op = "refresh" /\ resp.status = 401 /\ ~resp.chg /\ ~resp.late
  /\ refreshTokens[hashRefreshToken(resp.secret)].exists
  /\ refreshTokens[hashRefreshToken(resp.secret)].revokedAt # NULL
  /\ refreshTokens[hashRefreshToken(resp.secret)].expiresAt > now
  /\ ~refreshTokens[hashRefreshToken(resp.secret)].chg
  /\ Successors(resp.secret) = {}

\* no two rows of User share an email
UniqueEmails(us) ==
  \A i, j \in 1..Len(us) : us[i].email = us[j].email => i = j

\* C13: register keeps emails unique under concurrency: no step leaves two
\* users with one email, and a register whose email has been taken by another
\* call when its transaction runs is answered 409, no other error.
C13_ConcurrentRegisterConflict ==
  [][/\ UniqueEmails(users')
     /\ \A p \in Procs :
          (RegisterTx(p, "none") /\ findUserByEmail(users, procs[p].email) # 0)
          => resp'.status = 409]_vars

\* C14: register creates the user and its first refresh token as one unit:
\* a register that succeeds adds exactly one user and exactly one record, an
\* active one owned by that user, and changes nothing else; a register that
\* fails, also at the creation of the token, leaves both tables as they were.
C14_RegisterAtomic ==
  [][\A p \in Procs :
       (procs[p].pc = "reg_tx" /\ procs'[p].pc = "idle") =>
          \/ /\ resp'.status = 201
             /\ Len(users') = Len(users) + 1
             /\ \A i \in 1..Len(users) : users'[i] = users[i]
             /\ users'[Len(users')].email = procs[p].email
             /\ resp'.uid = Len(users')
             /\ \A h \in Hashes :
                  IF h = hashRefreshToken(resp'.out)
                  THEN /\ ~refreshTokens[h].exists
                       /\ refreshTokens'[h].exists
                       /\ refreshTokens'[h].userId = Len(users')
                       /\ refreshTokens'[h].revokedAt = NULL
                       /\ refreshTokens'[h].expiresAt > now'
                  ELSE refreshTokens'[h] = refreshTokens[h]
          \/ /\ resp'.status # 201
             /\ users' = users
             /\ refreshTokens' = refreshTokens]_vars

\* the creation of the token failed in the only register so far: no user row
C14_Witness ==
  /\ resp.op = "register" /\ resp.status = 500
  /\ users = <<>>
  /\ \A h \in Hashes : ~refreshTokens[h].exists

\* the response to a login that presented bad credentials
LoginRejected ==
  [NoResp EXCEPT !.op = "login", !.status = 401,
                 !.msg = "Invalid email or password"]

\* C15: a login with a wrong password and a login with an email nobody has
\* registered are answered alike: the same status 401 and the same message,
\* and nothing else in the response tells the two apart.
C15_LoginFailuresAlike ==
  [][\A p \in Procs, e \in Emails, pw \in Passwords :
       (/\ Starts(p, "login")
        /\ \/ findUserByEmail(users, e) = 0
           \/ ~verifyPassword(pw, users[findUserByEmail(users, e)].passwordHash)
        /\ LoginCheck(p, e, pw, "none"))
       => (procs'[p].pc = "idle" /\ resp' = LoginRejected)]_vars

\* a login was rejected while every email is registered (a wrong password),
\* and the response is the one an unknown email gets
C15_Witness ==
  /\ resp = LoginRejected
  /\ \A e \in Emails : findUserByEmail(users, e) # 0

\* C19: login starts an independent session: a login that succeeds creates
\* exactly one record, an active one owned by the user who logged in, and
\* leaves every other record, of that user and of the others, as it was, so
\* the sessions that were usable stay usable.
C19_LoginAddsSession ==
  [][\A p \in Procs :
       (procs[p].pc = "login_create" /\ procs'[p].pc = "idle" /\ resp'.status = 200)
       => /\ users' = users
          /\ \A h \in Hashes :
               IF h = hashRefreshToken(resp'.out)
               THEN /\ ~refreshTokens[h].exists
                    /\ refreshTokens'[h].exists
                    /\ refreshTokens'[h].userId = procs[p].uid
                    /\ refreshTokens'[h].revokedAt = NULL
                    /\ refreshTokens'[h].expiresAt > now'
               ELSE refreshTokens'[h] = refreshTokens[h]]_vars

\* after a login one user holds two usable sessions
C19_Witness ==
  \E h \in Hashes :
     /\ resp.op = "login" /\ resp.status = 200
     /\ h # hashRefreshToken(resp.out)
     /\ Usable(h) /\ Usable(hashRefreshToken(resp.out))
     /\ refreshTokens[h].userId = resp.uid
     /\ refreshTokens[hashRefreshToken(resp.out)].userId = resp.uid

\* the codes findRefreshToken takes for a connection failure
ConnectivityFaults == {"ECONNREFUSED", "ETIMEDOUT", "ENOTFOUND"}

\* C21: the lookup of a refresh token fails closed for connectivity faults
\* only. A refresh whose lookup meets a connectivity error is answered 401
\* "invalid token" and changes nothing; a refresh whose lookup meets any other
\* error, an integrity error, is answered with a distinct error: not 401, not
\* the invalid-token message, and not a success.
C21_LookupFailsClosed ==
  [][\A p \in Procs :
       Starts(p, "refresh") =>
         \A s \in Secrets, f \in DbFaults \ {"none"} :
           RefreshFind(p, s, f) =>
             /\ procs'[p].pc = "idle"
             /\ refreshTokens' = refreshTokens
             /\ IF f \in ConnectivityFaults
                THEN resp'.status = 401
                ELSE /\ resp'.status \notin {200, 401}
                     /\ resp'.msg # "Invalid or expired refresh token"]_vars

\* C24: REVOKED and EXPIRED are terminal. No step of register, login,
\* refresh, logout or changePassword removes a record, changes the expiresAt
\* of a record, or changes a revokedAt that is set; so a record that the
\* lookup rejects is rejected by every later lookup.
C24_TerminalStates ==
  [][\A h \in Hashes :
       refreshTokens[h].exists =>
         /\ refreshTokens'[h].exists
         /\ refreshTokens'[h].expiresAt = refreshTokens[h].expiresAt
         /\ refreshTokens[h].revokedAt # NULL
            => refreshTokens'[h].revokedAt = refreshTokens[h].revokedAt
         /\ findRefreshToken(refreshTokens, h, now, "none") = "null"
            => findRefreshToken(refreshTokens', h, now', "none") = "null"]_vars

\* a token that a rotation created has expired and a refresh with it was
\* rejected, while the token it replaced is still revoked
C24_Witness ==
  LET h == hashRefreshToken(resp.secret)
  IN /\ resp.op = "refresh" /\ resp.status = 401
     /\ refreshTokens[h].exists /\ refreshTokens[h].revokedAt = NULL
     /\ refreshTokens[h].expiresAt < now
     /\ refreshTokens[h].parent # 0
     /\ refreshTokens[hashRefreshToken(refreshTokens[h].parent)].revokedAt # NULL

\* C22: a refresh whose token was found active but whose owning user is gone
\* when the user is read is answered 401, as for an invalid token, and makes
\* no rotation.
C22_UserMissingIs401 ==
  [][\A p \in Procs :
       (procs[p].pc = "rf_user" /\ ~UserExists(users, procs[p].uid)
          /\ RefreshUser(p, "none"))
       => /\ procs'[p].pc = "idle"
          /\ resp'.status = 401
          /\ refreshTokens' = refreshTokens]_vars

\* C23: a changePassword whose current password does not match the stored
\* hash is answered 401 with the message that the current password is
\* incorrect.
C23_WrongCurrentIs401 ==
  [][\A p \in Procs :
       Starts(p, "changePassword") =>
         \A u \in UserIds, cur \in Passwords, new \in Passwords :
           (/\ UserExists(users, u)
            /\ ~verifyPassword(cur, users[u].passwordHash)
            /\ ChangePwCheck(p, u, cur, new))
           => /\ procs'[p].pc = "idle"
              /\ resp'.status = 401
              /\ resp'.msg = "Current password is incorrect"]_vars

\* every record that a rotation created has the owner of the record it
\* replaced
OwnerKept(store) ==
  \A h \in Hashes :
     (store[h].exists /\ store[h].parent # 0)
     => /\ store[hashRefreshToken(store[h].parent)].exists
        /\ store[hashRefreshToken(store[h].parent)].userId = store[h].userId

\* C29: token ownership is preserved. The userId of an existing record never
\* changes; the record a successful refresh(t) creates belongs to the user of
\* t, and so does the access token of its response; hence every record that
\* descends from a token by refreshes, whatever register, login, refresh,
\* logout and changePassword calls run in between, has that token's user.
C29_OwnershipPreserved ==
  [][/\ \A h \in Hashes :
          refreshTokens[h].exists =>
            /\ refreshTokens'[h].exists
            /\ refreshTokens'[h].userId = refreshTokens[h].userId
     /\ OwnerKept(refreshTokens')
     /\ (resp' # resp /\ resp'.op = "refresh" /\ resp'.status = 200)
        => LET old == hashRefreshToken(resp'.secret)
               new == hashRefreshToken(resp'.out)
           IN /\ refreshTokens[old].exists
              /\ resp'.uid = refreshTokens[old].userId
              /\ ~refreshTokens[new].exists /\ refreshTokens'[new].exists
              /\ refreshTokens'[new].userId = refreshTokens[old].userId]_vars

\* two users hold tokens and a refresh of one user's token succeeded: the new
\* record is that user's
C29_Witness ==
  LET new == hashRefreshToken(resp.out)
  IN /\ resp.op = "refresh" /\ resp.status = 200
     /\ refreshTokens[new].exists /\ refreshTokens[new].userId = resp.uid
     /\ refreshTokens[new].parent = resp.secret
     /\ \E h \in Hashes :
           refreshTokens[h].exists /\ refreshTokens[h].userId # resp.uid

\* the step neither writes a user row nor a refresh-token record, and ends
\* the request of handler p
NoEffect(p) ==
  /\ users' = users
  /\ refreshTokens' = refreshTokens
  /\ procs'[p].pc = "idle"

\* C30: rejected auth operations have no effect on stored state: a register
\* with a registered email, a login with an unknown email or a wrong
\* password, a refresh with a token that does not exist, has expired or is
\* revoked, and a changePassword with a wrong current password are answered
\* with an error and leave every user row and every refresh-token record as
\* it was.
C30_RejectedHasNoEffect ==
  [][\A p \in Procs :
       /\ Starts(p, "register") =>
            \A e \in Emails, pw \in Passwords :
              (findUserByEmail(users, e) # 0 /\ RegisterCheck(p, e, pw))
              => (NoEffect(p) /\ resp'.status >= 400)
       /\ Starts(p, "login") =>
            \A e \in Emails, pw \in Passwords :
              (/\ \/ findUserByEmail(users, e) = 0
                  \/ ~verifyPassword(pw, users[findUserByEmail(users, e)].passwordHash)
               /\ LoginCheck(p, e, pw, "none"))
              => (NoEffect(p) /\ resp'.status >= 400)
       /\ Starts(p, "refresh") =>
            \A s \in Secrets :
              (/\ resp'.secret = s \/ procs'[p].secret = s
               /\ LET h == hashRefreshToken(s)
                  IN \/ ~refreshTokens[h].exists
                     \/ refreshTokens[h].expiresAt < now
                     \/ refreshTokens[h].revokedAt # NULL
               /\ RefreshFind(p, s, "none"))
              => (NoEffect(p) /\ resp'.status >= 400)
       /\ Starts(p, "changePassword") =>
            \A u \in UserIds, cur \in Passwords, new \in Passwords :
              (/\ resp'.uid = u \/ procs'[p].uid = u
               /\ UserExists(users, u)
               /\ ~verifyPassword(cur, users[u].passwordHash)
               /\ ChangePwCheck(p, u, cur, new))
              => (NoEffect(p) /\ resp'.status >= 400)]_vars

\* a changePassword with a wrong current password was rejected while its user
\* holds an active token
C30_Witness ==
  /\ resp.op = "changePassword" /\ resp.status = 400
  /\ UserExists(users, resp.uid)
  /\ \E h \in Hashes : Usable(h) /\ refreshTokens[h].userId = resp.uid

\* the record of h exists, is not revoked, and its expiry has passed
Expired(store, h, t) ==
  store[h].exists /\ store[h].revokedAt = NULL /\ store[h].expiresAt < t

\* C20 (as the code has it): revocation is idempotent. revokeRefreshToken on
\* a hash whose record is revoked or absent returns the store unchanged, and
\* a logout answers 200, creates no record and never overwrites a revokedAt:
\* it changes nothing when the token is revoked or absent, and sets revokedAt
\* when the token is not revoked, be it expired or not.
C20_RevokeIdempotent ==
  [][/\ \A h \in Hashes :
          Dead(refreshTokens, h)
          => revokeRefreshToken(refreshTokens, h, now) = refreshTokens
     /\ \A p \in Procs, s \in Secrets :
          (Starts(p, "logout") /\ Logout(p, s)) =>
            LET h == hashRefreshToken(s)
            IN /\ resp'.status = 200
               /\ \A g \in Hashes :
                    refreshTokens'[g].exists = refreshTokens[g].exists
               /\ IF Dead(refreshTokens, h)
                  THEN refreshTokens' = refreshTokens
                  ELSE refreshTokens' = [refreshTokens EXCEPT ![h].revokedAt = now]]_vars

\* a logout of a token that a rotation had revoked earlier: answered 200, the
\* earlier revokedAt is still there
C20_Witness ==
  /\ resp.op = "logout" /\ resp.status = 200
  /\ Successors(resp.secret) # {}
  /\ refreshTokens[hashRefreshToken(resp.secret)].revokedAt # NULL
  /\ refreshTokens[hashRefreshToken(resp.secret)].revokedAt < now

\* C20 as stated: a logout of a token that is revoked, expired or absent
\* answers 200 and changes nothing.
C20_NoChangeWhenInvalid ==
  [][\A p \in Procs, s \in Secrets :
       (/\ Starts(p, "logout")
        /\ \/ Dead(refreshTokens, hashRefreshToken(s))
           \/ Expired(refreshTokens, hashRefreshToken(s), now)
        /\ Logout(p, s))
       => (resp'.status = 200 /\ refreshTokens' = refreshTokens)]_vars

(***************************************************************************)
(* Workspace membership service (workspaces/service.ts)                    *)
(***************************************************************************)
Roles == {"OWNER", "ADMIN", "MEMBER"}
NONE == "NONE"                   \* findUnique returned null: no such row
WsIds == 1..MaxWs

\* the accounts of the workspace scenarios; "nobody@x" is no account
WsAccounts ==
  <<[email |-> "a@x", passwordHash |-> hashPassword("pw1")],
    [email |-> "b@x", passwordHash |-> hashPassword("pw1")],
    [email |-> "c@x", passwordHash |-> hashPassword("pw1")]>>

WsUserIds == 1..Len(WsAccounts)
WsEmails == {"b@x", "c@x", "nobody@x"}

getRoleHierarchy(role) ==
  CASE role = "OWNER" -> 3
    [] role = "ADMIN" -> 2
    [] role = "MEMBER" -> 1
    [] OTHER -> 0

\* prisma.workspaceMember.count({where: {workspaceId, role: 'OWNER'}})
ownerCount(mem, ws) ==
  Cardinality({u \in WsUserIds : mem[<<ws, u>>] = "OWNER"})

\* variant: the caller's level is compared with MEMBER instead of ADMIN
callerCheck_MemberLevel(mem, ws, caller) ==
  IF mem[<<ws, caller>>] = NONE THEN 403
  ELSE IF getRoleHierarchy(mem[<<ws, caller>>]) < getRoleHierarchy("MEMBER") THEN 403
  ELSE 0

\* the caller check shared by inviteMember, updateMemberRole, removeMember:
\* 0 when the caller may go on, else the status of the error
callerCheck(mem, ws, caller) ==
  IF mem[<<ws, caller>>] = NONE THEN 403
  ELSE IF getRoleHierarchy(mem[<<ws, caller>>]) < getRoleHierarchy("ADMIN") THEN 403
  ELSE 0

WIdle ==
  [pc |-> "idle", op |-> "none", ws |-> 0, caller |-> 0, target |-> 0,
   role |-> NONE, cnt |-> 0]

WResponse(r, st) ==
  [op |-> r.op, ws |-> r.ws, target |-> r.target, cnt |-> r.cnt, status |-> st]

WFinish(p, r, st) ==
  /\ procs' = [procs EXCEPT ![p] = WIdle]
  /\ resp' = WResponse(r, st)

WContinue(p, r) ==
  /\ procs' = [procs EXCEPT ![p] = r]
  /\ UNCHANGED resp

authVars == <<users, refreshTokens, nextSecret, now, sched, mw, restVars>>

(* ---- createWorkspace ---- *)
CreateWorkspace(p, caller) ==
  /\ CanStart(p) /\ wsCount < MaxWs
  /\ started' = started + 1
  /\ wsCount' = wsCount + 1
  /\ members' = [members EXCEPT ![<<wsCount + 1, caller>>] = "OWNER"]
  /\ WFinish(p, [WIdle EXCEPT !.op = "createWorkspace", !.ws = wsCount + 1,
                              !.caller = caller], 201)
  /\ UNCHANGED authVars

(* ---- inviteMember ---- *)
InviteCaller(p, ws, email, role, caller) ==
  /\ CanStart(p)
  /\ started' = started + 1
  /\ LET uid == findUserByEmail(users, email)
         me == [WIdle EXCEPT !.op = "inviteMember", !.ws = ws, !.caller = caller,
                             !.role = role, !.target = uid]
     IN IF callerCheck(members, ws, caller) # 0
        THEN WFinish(p, [me EXCEPT !.target = 0], callerCheck(members, ws, caller))
        ELSE WContinue(p, [me EXCEPT !.pc = "iv_user"])
  /\ UNCHANGED <<authVars, members, wsCount>>

\* prisma.user.findUnique({where: {email}})
InviteUser(p) ==
  /\ procs[p].pc = "iv_user"
  /\ IF procs[p].target = 0
     THEN WFinish(p, procs[p], 404)
     ELSE WContinue(p, [procs[p] EXCEPT !.pc = "iv_exist"])
  /\ UNCHANGED <<authVars, members, wsCount, started>>

InviteExisting(p) ==
  /\ procs[p].pc = "iv_exist"
  /\ IF members[<<procs[p].ws, procs[p].target>>] # NONE
     THEN WFinish(p, procs[p], 409)
     ELSE WContinue(p, [procs[p] EXCEPT !.pc = "iv_create"])
  /\ UNCHANGED <<authVars, members, wsCount, started>>

\* workspaceMember.create: the unique (workspaceId, userId) rejects a second row
InviteCreate(p) ==
  /\ procs[p].pc = "iv_create"
  /\ IF members[<<procs[p].ws, procs[p].target>>] # NONE
     THEN /\ WFinish(p, procs[p], 500)
          /\ UNCHANGED members
     ELSE /\ members' = [members EXCEPT ![<<procs[p].ws, procs[p].target>>] = procs[p].role]
          /\ WFinish(p, procs[p], 201)
  /\ UNCHANGED <<authVars, wsCount, started>>

(* ---- updateMemberRole ---- *)
UpdateCaller(p, ws, target, role, caller) ==
  /\ CanStart(p)
  /\ started' = started + 1
  /\ LET me == [WIdle EXCEPT !.op = "updateMemberRole", !.ws = ws, !.caller = caller,
                             !.role = role, !.target = target]
     IN IF callerCheck(members, ws, caller) # 0
        THEN WFinish(p, me, callerCheck(members, ws, caller))
        ELSE WContinue(p, [me EXCEPT !.pc = "up_target"])
  /\ UNCHANGED <<authVars, members, wsCount>>

\* what updateMemberRole does with the target row it read:
\* the status of the error, or 0 to go on to the update. The second test of
\* the same condition (the owner count) is never reached.
updateTargetCheck(targetRole, newRole) ==
  IF targetRole = NONE THEN 404
  ELSE IF targetRole = "OWNER" /\ newRole # "OWNER" THEN 400
  ELSE 0

UpdateTarget(p) ==
  /\ procs[p].pc = "up_target"
  /\ LET st == updateTargetCheck(members[<<procs[p].ws, procs[p].target>>], procs[p].role)
     IN IF st # 0
        THEN WFinish(p, procs[p], st)
        ELSE WContinue(p, [procs[p] EXCEPT !.pc = "up_write"])
  /\ UNCHANGED <<authVars, members, wsCount, started>>

\* workspaceMember.update: throws when the row is gone
UpdateWrite(p) ==
  /\ procs[p].pc = "up_write"
  /\ IF members[<<procs[p].ws, procs[p].target>>] = NONE
     THEN /\ WFinish(p, procs[p], 500)
          /\ UNCHANGED members
     ELSE /\ members' = [members EXCEPT ![<<procs[p].ws, procs[p].target>>] = procs[p].role]
          /\ WFinish(p, procs[p], 200)
  /\ UNCHANGED <<authVars, wsCount, started>>

(* ---- removeMember ---- *)
RemoveCaller(p, ws, target, caller) ==
  /\ CanStart(p)
  /\ started' = started + 1
  /\ LET me == [WIdle EXCEPT !.op = "removeMember", !.ws = ws, !.caller = caller,
                             !.target = target]
     IN IF callerCheck(members, ws, caller) # 0
        THEN WFinish(p, me, callerCheck(members, ws, caller))
        ELSE WContinue(p, [me EXCEPT !.pc = "rm_target"])
  /\ UNCHANGED <<authVars, members, wsCount>>

\* what removeMember does with the target row it read: the status of the
\* error, or 0 to go on
removeTargetCheck(targetRole, target, caller) ==
  IF targetRole = NONE THEN 404
  ELSE IF target = caller /\ targetRole = "OWNER" THEN 400
  ELSE 0

RemoveTarget(p) ==
  /\ procs[p].pc = "rm_target"
  /\ LET r == procs[p]
         role == members[<<r.ws, r.target>>]
         st == removeTargetCheck(role, r.target, r.caller)
     IN IF st # 0 THEN WFinish(p, r, st)
        ELSE IF role = "OWNER" THEN WContinue(p, [r EXCEPT !.pc = "rm_count"])
        ELSE WContinue(p, [r EXCEPT !.pc = "rm_delete"])
  /\ UNCHANGED <<authVars, members, wsCount, started>>

\* variant: the last-owner test is off by one
isLastOwner_OffByOne(n) == n = 0

\* variant: the last-owner test also fires with two OWNERs
isLastOwner_AtMostTwo(n) == n <= 2

\* the last-owner test of removeMember on the count it read
isLastOwner(n) == n = 1

RemoveCount(p) ==
  /\ procs[p].pc = "rm_count"
  /\ LET n == ownerCount(members, procs[p].ws)
     IN IF isLastOwner(n)
        THEN WFinish(p, [procs[p] EXCEPT !.cnt = n], 400)
        ELSE WContinue(p, [procs[p] EXCEPT !.pc = "rm_delete", !.cnt = n])
  /\ UNCHANGED <<authVars, members, wsCount, started>>

\* workspaceMember.delete: throws when the row is gone
RemoveDelete(p) ==
  /\ procs[p].pc = "rm_delete"
  /\ IF members[<<procs[p].ws, procs[p].target>>] = NONE
     THEN /\ WFinish(p, procs[p], 500)
          /\ UNCHANGED members
     ELSE /\ members' = [members EXCEPT ![<<procs[p].ws, procs[p].target>>] = NONE]
          /\ WFinish(p, procs[p], 200)
  /\ UNCHANGED <<authVars, wsCount, started>>

\* three accounts are registered, no workspace exists
InitWs ==
  /\ users = WsAccounts
  /\ refreshTokens = [h \in Hashes |-> NoToken]
  /\ nextSecret = 1
  /\ now = 0
  /\ started = 0
  /\ procs = [p \in Procs |-> WIdle]
  /\ sched = [limit |-> MaxWsReqs, handlers |-> Procs]
  /\ members = [k \in WsIds \X WsUserIds |-> NONE]
  /\ wsCount = 0
  /\ mw = <<>>
  /\ resp = WResponse(WIdle, 0)
  /\ InitRest

NextWs ==
  \/ \E p \in Procs, c \in WsUserIds : CreateWorkspace(p, c)
  \/ \E p \in Procs, w \in WsIds, e \in WsEmails, r \in Roles, c \in WsUserIds :
        InviteCaller(p, w, e, r, c)
  \/ \E p \in Procs : InviteUser(p)
  \/ \E p \in Procs : InviteExisting(p)
  \/ \E p \in Procs : InviteCreate(p)
  \/ \E p \in Procs, w \in WsIds, t \in WsUserIds, r \in Roles, c \in WsUserIds :
        UpdateCaller(p, w, t, r, c)
  \/ \E p \in Procs : UpdateTarget(p)
  \/ \E p \in Procs : UpdateWrite(p)
  \/ \E p \in Procs, w \in WsIds, t \in WsUserIds, c \in WsUserIds :
        RemoveCaller(p, w, t, c)
  \/ \E p \in Procs : RemoveTarget(p)
  \/ \E p \in Procs : RemoveCount(p)
  \/ \E p \in Procs : RemoveDelete(p)

SpecWs == InitWs /\ [][NextWs]_vars

\* one request at a time: handler 1 runs every request to its end before the
\* next one arrives
InitWsSeq ==
  /\ users = WsAccounts
  /\ refreshTokens = [h \in Hashes |-> NoToken]
  /\ nextSecret = 1
  /\ now = 0
  /\ started = 0
  /\ procs = [p \in Procs |-> WIdle]
  /\ sched = [limit |-> MaxWsReqs, handlers |-> {1}]
  /\ members = [k \in WsIds \X WsUserIds |-> NONE]
  /\ wsCount = 0
  /\ mw = <<>>
  /\ resp = WResponse(WIdle, 0)
  /\ InitRest

SpecWsSeq == InitWsSeq /\ [][NextWs]_vars

(***************************************************************************)
(* Properties of the workspace memberships                                 *)
(***************************************************************************)
\* C6: every workspace has at least one OWNER at all times.
C6_AlwaysAnOwner ==
  \A w \in 1..wsCount : \E u \in WsUserIds : members[<<w, u>>] = "OWNER"

\* C7: the owner-count check and the removal it guards are one atomic step:
\* two removals that target different OWNERs of one workspace are never both
\* past a count of 2 with their delete still to come.
C7_CountAndRemoveAtomic ==
  \A p, q \in Procs :
     (/\ p # q
      /\ procs[p].pc = "rm_delete" /\ procs[q].pc = "rm_delete"
      /\ procs[p].ws = procs[q].ws /\ procs[p].target # procs[q].target)
     => ~(procs[p].cnt = 2 /\ procs[q].cnt = 2)

\* u is the only OWNER of workspace w
SoleOwner(mem, w, u) == mem[<<w, u>>] = "OWNER" /\ ownerCount(mem, w) = 1

\* the handler p was rejected with status st at this step and wrote nothing
Rejected(p, st) ==
  /\ procs'[p].pc = "idle"
  /\ resp'.status = st
  /\ members' = members

\* C16: removing or downgrading the sole OWNER is rejected with 400, whoever
\* asks: a removeMember that examines a target that is the sole OWNER is
\* rejected with 400 (at the self-removal test, or at the owner count) and
\* never reaches its delete, an updateMemberRole that examines a sole OWNER
\* to give it a lower role is rejected with 400, and both leave every
\* membership as it was.
C16_SoleOwnerKept ==
  [][\A p \in Procs :
       LET r == procs[p]
       IN /\ (r.pc = "rm_target" /\ procs'[p] # r /\ SoleOwner(members, r.ws, r.target))
             => \/ Rejected(p, 400)
                \/ (r.caller # r.target /\ procs'[p].pc = "rm_count" /\ members' = members)
          /\ (r.pc = "rm_count" /\ procs'[p] # r /\ SoleOwner(members, r.ws, r.target))
             => Rejected(p, 400)
          /\ (r.pc = "up_target" /\ procs'[p] # r /\ r.role # "OWNER"
                /\ SoleOwner(members, r.ws, r.target))
             => Rejected(p, 400)]_vars

\* an ADMIN asked to remove the sole OWNER: rejected at the owner count
C16_Witness ==
  /\ resp.op = "removeMember" /\ resp.status = 400 /\ resp.cnt = 1
  /\ SoleOwner(members, resp.ws, resp.target)

\* u is one of exactly two OWNERs of workspace w
OneOfTwoOwners(mem, w, u) == mem[<<w, u>>] = "OWNER" /\ ownerCount(mem, w) = 2

\* the steps of a removeMember whose target is one of two OWNERs, after the
\* self-removal test: the count lets it on, the delete succeeds, removes that
\* one row and leaves one OWNER
RemovalGoesThrough(p) ==
  LET r == procs[p]
  IN /\ (r.pc = "rm_count" /\ procs'[p] # r /\ OneOfTwoOwners(members, r.ws, r.target))
        => (procs'[p].pc = "rm_delete" /\ members' = members)
     /\ (r.pc = "rm_delete" /\ procs'[p] # r /\ OneOfTwoOwners(members, r.ws, r.target))
        => /\ procs'[p].pc = "idle" /\ resp'.status = 200
           /\ members' = [members EXCEPT ![<<r.ws, r.target>>] = NONE]
           /\ ownerCount(members', r.ws) = 1

\* the caller check lets an ADMIN or OWNER of the workspace on
CallerAdmitted(p) ==
  \A w \in WsIds, t \in WsUserIds, c \in WsUserIds :
     (Starts(p, "removeMember") /\ members[<<w, c>>] \in {"ADMIN", "OWNER"}
        /\ RemoveCaller(p, w, t, c))
     => procs'[p].pc = "rm_target"

\* C17 (as the code has it): in a workspace with two OWNERs, a removeMember
\* that targets one of them and is invoked by another member with role ADMIN
\* or OWNER succeeds and leaves the workspace with exactly one OWNER; an OWNER
\* that asks to remove itself is rejected with 400 and nothing changes.
C17_RemoveOneOfTwoOwners ==
  [][\A p \in Procs :
       LET r == procs[p]
       IN /\ CallerAdmitted(p)
          /\ (r.pc = "rm_target" /\ procs'[p] # r
                /\ OneOfTwoOwners(members, r.ws, r.target))
             => IF r.caller = r.target
                THEN Rejected(p, 400)
                ELSE (procs'[p].pc = "rm_count" /\ members' = members)
          /\ RemovalGoesThrough(p)]_vars

\* an OWNER was removed on a count of two and the workspace has one OWNER left
C17_Witness ==
  /\ resp.op = "removeMember" /\ resp.status = 200 /\ resp.cnt = 2
  /\ members[<<resp.ws, resp.target>>] = NONE
  /\ ownerCount(members, resp.ws) = 1

\* C17 as stated: with two OWNERs, removing one of them succeeds for every
\* caller that is ADMIN or OWNER, the target itself included, and leaves
\* exactly one OWNER.
C17_AnyCallerRemoves ==
  [][\A p \in Procs :
       LET r == procs[p]
       IN /\ CallerAdmitted(p)
          /\ (r.pc = "rm_target" /\ procs'[p] # r
                /\ OneOfTwoOwners(members, r.ws, r.target))
             => (procs'[p].pc = "rm_count" /\ members' = members)
          /\ RemovalGoesThrough(p)]_vars

\* C18: only ADMIN-or-higher members change memberships: an inviteMember,
\* updateMemberRole or removeMember whose caller has role MEMBER, or has no
\* membership in the workspace, is rejected with 403 and leaves every
\* membership and role as it was.
\* the request that arrives is an op on workspace w served by handler p
StartsIn(p, op, w) ==
  /\ Starts(p, op)
  /\ procs'[p].ws = w \/ resp'.ws = w

C18_MemberCannotChangeMembers ==
  [][\A p \in Procs, w \in WsIds :
       /\ StartsIn(p, "inviteMember", w) =>
            \A c \in WsUserIds :
              members[<<w, c>>] \in {"MEMBER", NONE} =>
                \A e \in WsEmails, r \in Roles :
                  InviteCaller(p, w, e, r, c) => Rejected(p, 403)
       /\ StartsIn(p, "updateMemberRole", w) =>
            \A c \in WsUserIds :
              members[<<w, c>>] \in {"MEMBER", NONE} =>
                \A t \in WsUserIds, r \in Roles :
                  UpdateCaller(p, w, t, r, c) => Rejected(p, 403)
       /\ StartsIn(p, "removeMember", w) =>
            \A c \in WsUserIds :
              members[<<w, c>>] \in {"MEMBER", NONE} =>
                \A t \in WsUserIds :
                  RemoveCaller(p, w, t, c) => Rejected(p, 403)]_vars

\* a removal of an existing member was rejected with 403; the member is
\* still there
C18_Witness ==
  /\ resp.op = "removeMember" /\ resp.status = 403
  /\ resp.ws \in 1..wsCount
  /\ members[<<resp.ws, resp.target>>] # NONE

\* C28: no caller grants a role higher than its own: the write of an
\* inviteMember or updateMemberRole whose caller has role ADMIN creates no
\* membership with role OWNER and raises no member, the caller included, to
\* OWNER.
C28_AdminNeverGrantsOwner ==
  [][\A p \in Procs :
       LET r == procs[p]
       IN (/\ r.pc \in {"iv_create", "up_write"} /\ procs'[p] # r
           /\ members[<<r.ws, r.caller>>] = "ADMIN")
          => \A u \in WsUserIds :
                members'[<<r.ws, u>>] = "OWNER" => members[<<r.ws, u>>] = "OWNER"]_vars

(***************************************************************************)
(* Todo service and search-index synchronization                           *)
(* (todos/service.ts, todos/controller.ts, ai/services/embedding.service.ts)*)
(*   the todos live in workspace 1; a request carries its number, rid, and  *)
(*   the synchronization it starts carries the same number                  *)
(***************************************************************************)
TodoWs == 1

TodoIds == 1..MaxTodos

TIdle ==
  [pc |-> "idle", op |-> "none", caller |-> 0, todo |-> 0, status |-> 0, rid |-> 0]

TResponse(r, st) == [op |-> r.op, rid |-> r.rid, status |-> st, out |-> r.todo]

TFinish(p, r, st) ==
  /\ procs' = [procs EXCEPT ![p] = TIdle]
  /\ resp' = TResponse(r, st)

TContinue(p, r) ==
  /\ procs' = [procs EXCEPT ![p] = r]
  /\ UNCHANGED resp

TodoExists(ts, id) == id \in 1..Len(ts) /\ ts[id].exists

\* embedTodo(id) / deleteTodoEmbedding(id) is called and not awaited: the
\* synchronization stands at its first awaited call
submitSync(ss, kind, id, rid) ==
  Append(ss, [kind |-> kind, todo |-> id, rid |-> rid,
              pc |-> IF kind = "embed" THEN "find" ELSE "vector"])

\* variant: the rejection is not caught, it fails the request that started
\* the synchronization
onSyncRejected_Propagate(st, lg) == [status |-> 500, log |-> lg]

\* .catch(console.error): the rejection is logged, the outcome st of the
\* request that started the synchronization stays
onSyncRejected(st, lg) == [status |-> st, log |-> lg + 1]

otherVars ==
  <<users, refreshTokens, nextSecret, now, sched, members, wsCount, mw,
    chatMessages, env, created>>

(* ---- createTodo ---- *)
\* verifyWorkspaceMembership
CreateTodoMember(p, caller) ==
  /\ CanStart(p) /\ Len(todos) < MaxTodos
  /\ started' = started + 1
  /\ LET me == [TIdle EXCEPT !.op = "createTodo", !.caller = caller,
                             !.rid = started + 1]
     IN IF members[<<TodoWs, caller>>] = NONE
        THEN TFinish(p, me, 404)
        ELSE TContinue(p, [me EXCEPT !.pc = "ct_create"])
  /\ UNCHANGED <<otherVars, todoVars>>

\* prisma.todo.create, then embedTodo is started and the result returned
CreateTodoRow(p, fault) ==
  /\ procs[p].pc = "ct_create"
  /\ IF fault # "none" \/ Len(todos) >= MaxTodos
     THEN /\ TFinish(p, procs[p], 500)
          /\ UNCHANGED <<todos, syncs>>
     ELSE /\ todos' = Append(todos, [exists |-> TRUE, createdById |-> procs[p].caller])
          /\ syncs' = submitSync(syncs, "embed", Len(todos) + 1, procs[p].rid)
          /\ TContinue(p, [procs[p] EXCEPT !.pc = "respond", !.status = 201,
                                            !.todo = Len(todos) + 1])
  /\ UNCHANGED <<otherVars, started, embeddingItems, vectors, log>>

(* ---- deleteTodo ---- *)
DeleteTodoMember(p, caller, id) ==
  /\ CanStart(p)
  /\ started' = started + 1
  /\ LET me == [TIdle EXCEPT !.op = "deleteTodo", !.caller = caller, !.todo = id,
                             !.rid = started + 1]
     IN IF members[<<TodoWs, caller>>] = NONE
        THEN TFinish(p, me, 404)
        ELSE TContinue(p, [me EXCEPT !.pc = "dt_find"])
  /\ UNCHANGED <<otherVars, todoVars>>

\* prisma.todo.findFirst and the authorization check
DeleteTodoFind(p) ==
  /\ procs[p].pc = "dt_find"
  /\ IF ~TodoExists(todos, procs[p].todo)
     THEN TFinish(p, procs[p], 404)
     ELSE IF /\ todos[procs[p].todo].createdById # procs[p].caller
             /\ members[<<TodoWs, procs[p].caller>>] \notin {"ADMIN", "OWNER"}
     THEN TFinish(p, procs[p], 403)
     ELSE TContinue(p, [procs[p] EXCEPT !.pc = "dt_delete"])
  /\ UNCHANGED <<otherVars, todoVars, started>>

\* prisma.todo.delete, then deleteTodoEmbedding is started
DeleteTodoRow(p, fault) ==
  /\ procs[p].pc = "dt_delete"
  /\ IF fault # "none" \/ ~TodoExists(todos, procs[p].todo)
     THEN /\ TFinish(p, procs[p], 500)
          /\ UNCHANGED <<todos, syncs>>
     ELSE /\ todos' = [todos EXCEPT ![procs[p].todo].exists = FALSE]
          /\ syncs' = submitSync(syncs, "delete", procs[p].todo, procs[p].rid)
          /\ TContinue(p, [procs[p] EXCEPT !.pc = "respond", !.status = 200])
  /\ UNCHANGED <<otherVars, started, embeddingItems, vectors, log>>

\* the controller sends what the service returned
TodoRespond(p) ==
  /\ procs[p].pc = "respond"
  /\ TFinish(p, procs[p], procs[p].status)
  /\ UNCHANGED <<otherVars, todoVars, started>>

(* ---- the synchronizations ---- *)
\* a step of synchronization k that neither rejects nor touches a request
SyncGoes(k, pc) ==
  /\ syncs' = [syncs EXCEPT ![k].pc = pc]
  /\ UNCHANGED <<procs, resp, log>>

\* synchronization k rejects: the handler attached with .catch runs on the
\* outcome of the request that started it, pending or sent
SyncRejects(k) ==
  LET rid == syncs[k].rid
      pending == {p \in Procs : procs[p].rid = rid /\ procs[p].pc = "respond"}
      sent == resp.rid = rid /\ resp.status \in {200, 201}
      st == IF pending # {} THEN procs[CHOOSE p \in pending : TRUE].status
            ELSE IF sent THEN resp.status ELSE 0
      o == onSyncRejected(st, log)
  IN /\ syncs' = [syncs EXCEPT ![k].pc = "rejected"]
     /\ log' = o.log
     /\ procs' = [p \in Procs |->
                    IF p \in pending THEN [procs[p] EXCEPT !.status = o.status]
                    ELSE procs[p]]
     /\ resp' = IF pending = {} /\ sent THEN [resp EXCEPT !.status = o.status]
                ELSE resp

\* embedTodo: prisma.todo.findUnique
EmbedFind(k, fault) ==
  /\ k \in 1..Len(syncs) /\ syncs[k].pc = "find"
  /\ IF fault # "none" THEN SyncRejects(k)
     ELSE IF ~TodoExists(todos, syncs[k].todo) THEN SyncGoes(k, "done")
     ELSE SyncGoes(k, "upsert")
  /\ UNCHANGED <<otherVars, started, todos, embeddingItems, vectors>>

\* embedTodo: upsertContent, its failure is caught and warned about
EmbedUpsert(k, fault) ==
  /\ k \in 1..Len(syncs) /\ syncs[k].pc = "upsert"
  /\ SyncGoes(k, "track")
  /\ vectors' = IF fault = "none" THEN vectors \cup {syncs[k].todo} ELSE vectors
  /\ UNCHANGED <<otherVars, started, todos, embeddingItems>>

\* embedTodo: prisma.embeddingItem.upsert
EmbedTrack(k, fault) ==
  /\ k \in 1..Len(syncs) /\ syncs[k].pc = "track"
  /\ IF fault # "none"
     THEN SyncRejects(k) /\ UNCHANGED embeddingItems
     ELSE SyncGoes(k, "done") /\ embeddingItems' = embeddingItems \cup {syncs[k].todo}
  /\ UNCHANGED <<otherVars, started, todos, vectors>>

\* deleteTodoEmbedding: deleteVector, its failure is ignored
DeleteVector(k, fault) ==
  /\ k \in 1..Len(syncs) /\ syncs[k].pc = "vector"
  /\ SyncGoes(k, "items")
  /\ vectors' = IF fault = "none" THEN vectors \ {syncs[k].todo} ELSE vectors
  /\ UNCHANGED <<otherVars, started, todos, embeddingItems>>

\* deleteTodoEmbedding: prisma.embeddingItem.deleteMany
DeleteItems(k, fault) ==
  /\ k \in 1..Len(syncs) /\ syncs[k].pc = "items"
  /\ IF fault # "none"
     THEN SyncRejects(k) /\ UNCHANGED embeddingItems
     ELSE SyncGoes(k, "done") /\ embeddingItems' = embeddingItems \ {syncs[k].todo}
  /\ UNCHANGED <<otherVars, started, todos, vectors>>

TodoMembers ==
  [k \in WsIds \X WsUserIds |->
     IF k = <<TodoWs, 1>> THEN "OWNER"
     ELSE IF k = <<TodoWs, 2>> THEN "MEMBER" ELSE NONE]

InitTodo ==
  /\ users = WsAccounts
  /\ refreshTokens = [h \in Hashes |-> NoToken]
  /\ nextSecret = 1
  /\ now = 0
  /\ started = 0
  /\ procs = [p \in Procs |-> TIdle]
  /\ sched = [limit |-> MaxTodoReqs, handlers |-> {1}]
  /\ members = TodoMembers
  /\ wsCount = 1
  /\ mw = <<>>
  /\ resp = TResponse(TIdle, 0)
  /\ InitRest

NextTodo ==
  \/ \E p \in Procs, c \in WsUserIds : CreateTodoMember(p, c)
  \/ \E p \in Procs, f \in StmtFaults : CreateTodoRow(p, f)
  \/ \E p \in Procs, c \in WsUserIds, id \in TodoIds : DeleteTodoMember(p, c, id)
  \/ \E p \in Procs : DeleteTodoFind(p)
  \/ \E p \in Procs, f \in StmtFaults : DeleteTodoRow(p, f)
  \/ \E p \in Procs : TodoRespond(p)
  \/ \E k \in 1..MaxTodoReqs, f \in StmtFaults : EmbedFind(k, f)
  \/ \E k \in 1..MaxTodoReqs, f \in StmtFaults : EmbedUpsert(k, f)
  \/ \E k \in 1..MaxTodoReqs, f \in StmtFaults : EmbedTrack(k, f)
  \/ \E k \in 1..MaxTodoReqs, f \in StmtFaults : DeleteVector(k, f)
  \/ \E k \in 1..MaxTodoReqs, f \in StmtFaults : DeleteItems(k, f)

SpecTodo == InitTodo /\ [][NextTodo]_vars

\* C25: the index synchronization is fire-and-forget. createTodo and
\* deleteTodo have their result when the synchronization has only been
\* started; the response sent is that result, whatever the synchronization
\* has done in between; and a step of a synchronization, a failing one
\* included, changes no request, no response and no todo: a rejection adds a
\* line to the log and nothing else.
C25_SyncIsFireAndForget ==
  [][/\ \A p \in Procs :
          /\ (procs[p].pc \in {"ct_create", "dt_delete"} /\ procs'[p].pc = "respond")
             => /\ Len(syncs') = Len(syncs) + 1
                /\ syncs'[Len(syncs')].pc \in {"find", "vector"}
                /\ syncs'[Len(syncs')].rid = procs[p].rid
                /\ procs'[p].status = IF procs[p].op = "createTodo" THEN 201 ELSE 200
          /\ (procs[p].pc = "respond" /\ procs'[p].pc = "idle")
             => /\ resp'.rid = procs[p].rid
                /\ resp'.status = IF procs[p].op = "createTodo" THEN 201 ELSE 200
     /\ (Len(syncs') = Len(syncs) /\ syncs' # syncs)
        => /\ UNCHANGED <<todos, procs, resp>>
           /\ \A k \in 1..Len(syncs) :
                IF syncs'[k].pc = "rejected" /\ syncs[k].pc # "rejected"
                THEN log' = log + 1 /\ UNCHANGED <<embeddingItems, vectors>>
                ELSE syncs'[k] # syncs[k] => log' = log]_vars

\* the synchronization of a created todo was rejected, the request was
\* answered 201 and the todo is stored
C25_Witness ==
  \E k \in 1..Len(syncs) :
     /\ syncs[k].pc = "rejected" /\ syncs[k].kind = "embed"
     /\ resp.op = "createTodo" /\ resp.rid = syncs[k].rid /\ resp.status = 201
     /\ TodoExists(todos, resp.out)
     /\ log = 1

(***************************************************************************)
(* Request middleware: the authentication check and the workspace role     *)
(* check.  Each is one step on one request; mw records the request and     *)
(* what the middleware did with it (responded, or called next()).          *)
(***************************************************************************)
AccessTTLUnits == 1  \* lifetime of an access token, in clock units
Schemes == {"none", "Bearer", "Basic"}
Signatures == {"good", "forged"}
MwUserIds == {1, 2}
MwEmails == {"a@x", ""}       \* "" is a payload without an e-mail claim

\* jwt.sign(payload, secret, {expiresIn}): the payload, its expiry, the signature
generateAccessToken(userId, email, t) ==
  [userId |-> userId, email |-> email, exp |-> t + AccessTTLUnits, sig |-> "good"]

\* the tokens a client can put in a header: issued ones, expired ones,
\* ones signed with another key, ones whose payload lacks a claim
AccessTokens ==
  [userId : MwUserIds \cup {NULL}, email : MwEmails,
   exp : {0, AccessTTLUnits}, sig : Signatures]

NoAccessToken == [userId |-> NULL, email |-> "", exp |-> 0, sig |-> "forged"]

Headers ==
  {[scheme |-> "none", token |-> NoAccessToken]}
    \cup [scheme : Schemes \ {"none"}, token : AccessTokens]

NoPayload == [userId |-> NULL, email |-> ""]

\* jwt.verify throws on a bad signature and on an expired token; a payload
\* without a string userId or email is refused as well
verifyAccessToken(token, t) ==
  IF token.sig # "good" \/ t >= token.exp THEN NoPayload
  ELSE IF token.userId = NULL \/ token.email = "" THEN NoPayload
  ELSE [userId |-> token.userId, email |-> token.email]

MwIdle ==
  [name |-> "none", header |-> [scheme |-> "none", token |-> NoAccessToken],
   reqUser |-> NULL, ws |-> 0, minRole |-> NONE, fault |-> "none",
   status |-> 0, next |-> FALSE, user |-> NoPayload, member |-> NONE]

\* authMiddleware as the repository has it: it answers 401 and never calls
\* next(), whatever the request carries
authMiddleware(header) ==
  [status |-> 401, next |-> FALSE, user |-> NoPayload]

AuthMiddleware(header) ==
  /\ mw' = [MwIdle EXCEPT !.name = "auth", !.header = header,
                          !.status = authMiddleware(header).status,
                          !.next = authMiddleware(header).next,
                          !.user = authMiddleware(header).user]
  /\ UNCHANGED <<users, refreshTokens, nextSecret, now, started, sched, procs,
                 members, wsCount, restVars, resp>>

\* the role check with its comparison dropped: any member passes
requireWorkspaceRole_AnyMember(mem, reqUser, ws, minRole, fault) ==
  IF reqUser = NULL THEN [status |-> 401, next |-> FALSE, member |-> NONE]
  ELSE IF fault # "none" THEN [status |-> 500, next |-> FALSE, member |-> NONE]
  ELSE IF mem[<<ws, reqUser>>] = NONE
         THEN [status |-> 403, next |-> FALSE, member |-> NONE]
  ELSE [status |-> 0, next |-> TRUE, member |-> mem[<<ws, reqUser>>]]

\* requireWorkspaceRole(workspaceId, minRole)(req): 401 without req.user, 500
\* when the membership lookup throws, 403 for a non-member and for a role
\* below minRole, otherwise the membership is attached and next() is called
requireWorkspaceRole(mem, reqUser, ws, minRole, fault) ==
  IF reqUser = NULL THEN [status |-> 401, next |-> FALSE, member |-> NONE]
  ELSE IF fault # "none" THEN [status |-> 500, next |-> FALSE, member |-> NONE]
  ELSE IF mem[<<ws, reqUser>>] = NONE
         THEN [status |-> 403, next |-> FALSE, member |-> NONE]
  ELSE IF getRoleHierarchy(mem[<<ws, reqUser>>]) < getRoleHierarchy(minRole)
         THEN [status |-> 403, next |-> FALSE, member |-> NONE]
  ELSE [status |-> 0, next |-> TRUE, member |-> mem[<<ws, reqUser>>]]

RequireWorkspaceRole(reqUser, ws, minRole, fault) ==
  /\ mw' = [MwIdle EXCEPT
              !.name = "role", !.reqUser = reqUser, !.ws = ws,
              !.minRole = minRole, !.fault = fault,
              !.status = requireWorkspaceRole(members, reqUser, ws, minRole, fault).status,
              !.next = requireWorkspaceRole(members, reqUser, ws, minRole, fault).next,
              !.member = requireWorkspaceRole(members, reqUser, ws, minRole, fault).member]
  /\ UNCHANGED <<users, refreshTokens, nextSecret, now, started, sched, procs,
                 members, wsCount, restVars, resp>>

\* membership tables that createWorkspace, inviteMember and updateMemberRole
\* produce: account 1 created every existing workspace and owns it, the other
\* accounts hold any role or none; a workspace not yet created has no rows
MwMembers ==
  {m \in [WsIds \X WsUserIds -> Roles \cup {NONE}] :
     \E n \in 0..MaxWs :
        \A w \in WsIds :
           IF w <= n THEN m[<<w, 1>>] = "OWNER"
           ELSE \A u \in WsUserIds : m[<<w, u>>] = NONE}

InitMw ==
  /\ users = WsAccounts
  /\ refreshTokens = [h \in Hashes |-> NoToken]
  /\ nextSecret = 1
  /\ now = 0
  /\ started = 0
  /\ procs = [p \in Procs |-> WIdle]
  /\ sched = [limit |-> 0, handlers |-> {}]
  /\ members \in MwMembers
  /\ wsCount = Cardinality({w \in WsIds : members[<<w, 1>>] = "OWNER"})
  /\ mw = MwIdle
  /\ resp = WResponse(WIdle, 0)
  /\ InitRest

NextMw ==
  \/ \E h \in Headers : AuthMiddleware(h)
  \/ \E u \in WsUserIds \cup {NULL}, w \in WsIds, r \in Roles, f \in DbFaults :
        RequireWorkspaceRole(u, w, r, f)

SpecMw == InitMw /\ [][NextMw]_vars

(***************************************************************************)
(* Properties of the middleware                                            *)
(***************************************************************************)
\* C8: a request passes the authentication check exactly when it carries
\* "Authorization: Bearer <token>" with a token that verifyAccessToken accepts;
\* the identity attached is then the token's payload, and every other request
\* is answered 401 without the handler running.
C8_AuthPassIff ==
  mw.name = "auth" =>
    LET ok == /\ mw.header.scheme = "Bearer"
              /\ verifyAccessToken(mw.header.token, now) # NoPayload
    IN /\ mw.next <=> ok
       /\ mw.next => mw.user = verifyAccessToken(mw.header.token, now)
       /\ ~mw.next => mw.status = 401

\* the pairs <<role held, role required>> that satisfy OWNER > ADMIN > MEMBER
Sufficient ==
  {<<"OWNER", "OWNER">>, <<"OWNER", "ADMIN">>, <<"OWNER", "MEMBER">>,
   <<"ADMIN", "ADMIN">>, <<"ADMIN", "MEMBER">>, <<"MEMBER", "MEMBER">>}

\* C9 (as the code has it): requireWorkspaceRole lets an authenticated caller
\* through exactly when the membership lookup succeeds and finds a membership
\* whose role is at least minRole, and then attaches that membership; a
\* non-member and an insufficient role are rejected with 403, a failed lookup
\* with 500, and no rejection attaches a membership.
C9_RoleCheck ==
  (mw.name = "role" /\ mw.reqUser # NULL) =>
    LET held == members[<<mw.ws, mw.reqUser>>]
    IN /\ mw.next <=> (mw.fault = "none" /\ <<held, mw.minRole>> \in Sufficient)
       /\ mw.next => mw.member = held
       /\ (~mw.next /\ mw.fault = "none") => mw.status = 403
       /\ mw.fault # "none" => mw.status = 500
       /\ ~mw.next => mw.member = NONE

\* the lookup failed for a caller who owns the workspace: rejected with 500
C9_Witness ==
  /\ mw.name = "role" /\ mw.reqUser # NULL
  /\ mw.fault # "none"
  /\ members[<<mw.ws, mw.reqUser>>] = "OWNER"
  /\ mw.status = 500 /\ ~mw.next /\ mw.member = NONE

\* C9 as stated: an authenticated caller passes exactly when a sufficient
\* membership exists, and every other request is rejected with 403.
C9_RejectIs403 ==
  (mw.name = "role" /\ mw.reqUser # NULL) =>
    /\ mw.next <=> <<members[<<mw.ws, mw.reqUser>>], mw.minRole>> \in Sufficient
    /\ ~mw.next => (mw.status = 403 /\ mw.member = NONE)

(***************************************************************************)
(* Refresh-token lifetime from the TTL string (refreshToken.service.ts)    *)
(*   a string is the sequence of its characters, a time is in hours        *)
(***************************************************************************)
DayHours == 24

DefaultDays == 30

DigitVal ==
  [c \in {"0", "1", "2", "3", "4", "5", "6", "7", "8", "9"} |->
     CASE c = "0" -> 0 [] c = "1" -> 1 [] c = "2" -> 2 [] c = "3" -> 3
       [] c = "4" -> 4 [] c = "5" -> 5 [] c = "6" -> 6 [] c = "7" -> 7
       [] c = "8" -> 8 [] c = "9" -> 9]

\* the characters the configured TTL is made of
TtlChars == {"1", "2", "x", "d", "h"}

RECURSIVE SeqsUpTo(_)
SeqsUpTo(n) ==
  IF n = 0 THEN {<<>>}
  ELSE SeqsUpTo(n - 1) \cup
       {Append(q, c) : q \in {r \in SeqsUpTo(n - 1) : Len(r) = n - 1}, c \in TtlChars}

TtlStrings == SeqsUpTo(MaxLen)

endsWith(str, c) == Len(str) > 0 /\ str[Len(str)] = c

\* str.slice(0, -1)
sliceLast(str) == SubSeq(str, 1, Len(str) - 1)

RECURSIVE leadingDigits(_)
leadingDigits(str) ==
  IF str = <<>> \/ str[1] \notin DOMAIN DigitVal THEN <<>>
  ELSE <<str[1]>> \o leadingDigits(Tail(str))

RECURSIVE decimal(_)
decimal(ds) ==
  IF ds = <<>> THEN 0
  ELSE decimal(SubSeq(ds, 1, Len(ds) - 1)) * 10 + DigitVal[ds[Len(ds)]]

\* parseInt(str, 10): the number the leading digits spell, whatever follows
\* them; NaN when the string does not start with a digit
parseInt(str) ==
  IF leadingDigits(str) = <<>> THEN [nan |-> TRUE, val |-> 0]
  ELSE [nan |-> FALSE, val |-> decimal(leadingDigits(str))]

\* a Date whose time value is NaN
InvalidDate == [valid |-> FALSE, time |-> 0]

\* getRefreshTokenExpiry with the configured string and "now" as parameters
expiryOf(expiry, t) ==
  IF endsWith(expiry, "d")
  THEN LET days == parseInt(sliceLast(expiry))
       IN IF days.nan THEN InvalidDate
          ELSE [valid |-> TRUE, time |-> t + days.val * DayHours]
  ELSE IF endsWith(expiry, "h")
  THEN LET hours == parseInt(sliceLast(expiry))
       IN IF hours.nan THEN InvalidDate
          ELSE [valid |-> TRUE, time |-> t + hours.val]
  ELSE [valid |-> TRUE, time |-> t + DefaultDays * DayHours]

\* createRefreshToken computes the expiry of the record it is about to insert
ComputeExpiry ==
  /\ created' = [at |-> now, expiresAt |-> expiryOf(env, now)]
  /\ created' # created
  /\ UNCHANGED <<users, refreshTokens, nextSecret, now, started, sched, procs,
                 members, wsCount, mw, todoVars, chatMessages, env, resp>>

InitExpiry ==
  /\ users = <<>>
  /\ refreshTokens = [h \in Hashes |-> NoToken]
  /\ nextSecret = 1
  /\ now = 0
  /\ started = 0
  /\ procs = [p \in Procs |-> IdleProc]
  /\ sched = [limit |-> 0, handlers |-> {}]
  /\ members = <<>>
  /\ wsCount = 0
  /\ mw = <<>>
  /\ resp = NoResp
  /\ InitTodoVars
  /\ chatMessages = [c \in ChatSessions |-> <<>>]
  /\ env \in TtlStrings
  /\ created = <<>>

NextExpiry ==
  \/ ComputeExpiry
  \/ Tick

SpecExpiry == InitExpiry /\ [][NextExpiry]_vars

\* every character is a digit, and there is one
isNumber(str) == str # <<>> /\ \A i \in 1..Len(str) : str[i] \in DOMAIN DigitVal

\* C26: the expiry is the creation time plus n days for "<n>d", plus n hours
\* for "<n>h", and plus 30 days for every other string, the ones whose part
\* before the suffix is empty or not a number included; so the expiry is
\* always a valid date.
C26_TtlParsing ==
  created # <<>> =>
    /\ created.expiresAt.valid
    /\ created.expiresAt.time =
         IF endsWith(env, "d") /\ isNumber(sliceLast(env))
         THEN created.at + decimal(sliceLast(env)) * DayHours
         ELSE IF endsWith(env, "h") /\ isNumber(sliceLast(env))
         THEN created.at + decimal(sliceLast(env))
         ELSE created.at + DefaultDays * DayHours

(***************************************************************************)
(* Chat streaming (ai/services/chat.service.ts, ai/controller.ts)          *)
(*   a text is the sequence of its pieces, so that concatenation is \o;    *)
(*   a stream carries the number of its request, rid, and so do the        *)
(*   messages it saves; gen is what the model generated, in order          *)
(***************************************************************************)
StreamTokens == {"a", "b"}

SaveFaults == {"none", "create", "update"}

SIdle ==
  [pc |-> "idle", op |-> "none", session |-> 0, rid |-> 0, gen |-> <<>>,
   fullResponse |-> <<>>, events |-> <<>>]

SResponse(r) == [op |-> r.op, session |-> r.session, rid |-> r.rid, events |-> r.events]

Event(type, content) == [type |-> type, content |-> content]

\* res.end(): the connection is closed with the events written so far
SFinish(p, r) ==
  /\ procs' = [procs EXCEPT ![p] = SIdle]
  /\ resp' = SResponse(r)

\* the generator threw: the controller writes an error event and ends
SFail(p, r) == SFinish(p, [r EXCEPT !.events = Append(r.events, Event("error", <<>>))])

SContinue(p, r) ==
  /\ procs' = [procs EXCEPT ![p] = r]
  /\ UNCHANGED resp

\* saveMessage: chatMessage.create, then chatSession.update
saveMessage(msgs, c, role, content, rid, fault) ==
  IF fault = "create" THEN msgs
  ELSE [msgs EXCEPT ![c] = Append(@, [role |-> role, content |-> content, rid |-> rid])]

\* variant: the response kept is the last token
accumulate_Last(full, token) == <<token>>

\* fullResponse += token
accumulate(full, token) == full \o <<token>>

streamFrame ==
  <<users, refreshTokens, nextSecret, now, sched, members, wsCount, mw, todoVars,
    env, created>>

\* the context is built and the session found or created, then 'start'
StreamOpen(p, c, fault) ==
  /\ CanStart(p)
  /\ started' = started + 1
  /\ LET me == [SIdle EXCEPT !.op = "stream", !.session = c, !.rid = started + 1]
     IN IF fault # "none"
        THEN SFail(p, me)
        ELSE SContinue(p, [me EXCEPT !.pc = "history",
                                     !.events = <<Event("start", <<>>)>>])
  /\ UNCHANGED <<streamFrame, chatMessages>>

\* getRecentMessages
StreamHistory(p, fault) ==
  /\ procs[p].pc = "history"
  /\ IF fault # "none"
     THEN SFail(p, procs[p])
     ELSE SContinue(p, [procs[p] EXCEPT !.pc = "save_user"])
  /\ UNCHANGED <<streamFrame, chatMessages, started>>

\* saveMessage(sessionId, 'user', message)
StreamSaveUser(p, fault) ==
  /\ procs[p].pc = "save_user"
  /\ chatMessages' = saveMessage(chatMessages, procs[p].session, "user", <<"q">>,
                                  procs[p].rid, fault)
  /\ IF fault # "none"
     THEN SFail(p, procs[p])
     ELSE SContinue(p, [procs[p] EXCEPT !.pc = "gen"])
  /\ UNCHANGED <<streamFrame, started>>

\* one turn of the for await loop: a token arrives and is passed on
StreamToken(p, token) ==
  /\ procs[p].pc = "gen" /\ Len(procs[p].gen) < MaxStreamTokens
  /\ SContinue(p, [procs[p] EXCEPT
                     !.gen = Append(@, token),
                     !.fullResponse = accumulate(@, token),
                     !.events = Append(@, Event("token", <<token>>))])
  /\ UNCHANGED <<streamFrame, chatMessages, started>>

\* the completion stream throws
StreamGenFail(p) ==
  /\ procs[p].pc = "gen"
  /\ SFail(p, procs[p])
  /\ UNCHANGED <<streamFrame, chatMessages, started>>

\* the completion stream is exhausted
StreamGenEnd(p) ==
  /\ procs[p].pc = "gen"
  /\ SContinue(p, [procs[p] EXCEPT !.pc = "save_ai"])
  /\ UNCHANGED <<streamFrame, chatMessages, started>>

\* saveMessage(sessionId, 'assistant', fullResponse)
StreamSaveAssistant(p, fault) ==
  /\ procs[p].pc = "save_ai"
  /\ chatMessages' = saveMessage(chatMessages, procs[p].session, "assistant",
                                  procs[p].fullResponse, procs[p].rid, fault)
  /\ IF fault # "none"
     THEN SFail(p, procs[p])
     ELSE SContinue(p, [procs[p] EXCEPT !.pc = "done"])
  /\ UNCHANGED <<streamFrame, started>>

\* 'done' with the full message, then endSSE
StreamDone(p) ==
  /\ procs[p].pc = "done"
  /\ SFinish(p, [procs[p] EXCEPT
                   !.events = Append(@, Event("done", procs[p].fullResponse))])
  /\ UNCHANGED <<streamFrame, chatMessages, started>>

\* one stream at a time
StreamHandlers == {1}

InitStream ==
  /\ users = WsAccounts
  /\ refreshTokens = [h \in Hashes |-> NoToken]
  /\ nextSecret = 1
  /\ now = 0
  /\ started = 0
  /\ procs = [p \in Procs |-> SIdle]
  /\ sched = [limit |-> MaxStreams, handlers |-> StreamHandlers]
  /\ members = <<>>
  /\ wsCount = 0
  /\ mw = <<>>
  /\ resp = SResponse(SIdle)
  /\ InitRest

NextStream ==
  \/ \E p \in Procs, c \in ChatSessions, f \in StmtFaults : StreamOpen(p, c, f)
  \/ \E p \in Procs, f \in StmtFaults : StreamHistory(p, f)
  \/ \E p \in Procs, f \in SaveFaults : StreamSaveUser(p, f)
  \/ \E p \in Procs, t \in StreamTokens : StreamToken(p, t)
  \/ \E p \in Procs : StreamGenFail(p)
  \/ \E p \in Procs : StreamGenEnd(p)
  \/ \E p \in Procs, f \in SaveFaults : StreamSaveAssistant(p, f)
  \/ \E p \in Procs : StreamDone(p)

SpecStream == InitStream /\ [][NextStream]_vars

\* the contents of the token events of ev, concatenated in their order
RECURSIVE TokenContents(_)
TokenContents(ev) ==
  IF ev = <<>> THEN <<>>
  ELSE (IF ev[1].type = "token" THEN ev[1].content ELSE <<>>) \o TokenContents(Tail(ev))

\* 'start' comes first and only there, 'done' and 'error' come last if at all
Ordered(ev) ==
  \A i \in 1..Len(ev) :
     /\ ev[i].type = "start" => i = 1
     /\ ev[i].type \in {"done", "error"} => i = Len(ev)
     /\ ev[i].type = "token" => (i > 1 /\ ev[1].type = "start")

\* the stream ran to its end
Completed(r) ==
  r.op = "stream" /\ r.events # <<>> /\ r.events[Len(r.events)].type = "done"

\* the positions in session c of the messages with this role saved by stream rid
Saved(c, rid, role) ==
  {i \in 1..Len(chatMessages[c]) :
     chatMessages[c][i].rid = rid /\ chatMessages[c][i].role = role}

\* C27: the events of a chat stream come in a fixed order. While a stream runs
\* it has sent 'start' first and then the tokens in the order of generation;
\* its user message is saved before the first token is sent and its assistant
\* message only when no token is left. A stream that completed has sent
\* exactly one 'start', first, the tokens, and exactly one 'done', last, whose
\* content is the concatenation of the token contents; it has added to its
\* session exactly its user message and, after it, its assistant message,
\* whose content is that of 'done'.
C27_StreamOrder ==
  /\ \A p \in Procs :
       LET r == procs[p]
       IN r.pc # "idle" =>
            /\ Ordered(r.events)
            /\ r.events[1].type = "start"
            /\ \A i \in 2..Len(r.events) :
                 r.events[i] = Event("token", <<r.gen[i - 1]>>)
            /\ Len(r.events) = Len(r.gen) + 1
            /\ r.gen # <<>> => Cardinality(Saved(r.session, r.rid, "user")) = 1
            /\ Saved(r.session, r.rid, "assistant") # {} => r.pc = "done"
  /\ resp.op = "stream" => Ordered(resp.events)
  /\ Completed(resp) =>
       LET ev == resp.events
           n == Len(ev)
           us == Saved(resp.session, resp.rid, "user")
           as == Saved(resp.session, resp.rid, "assistant")
       IN /\ n >= 2
          /\ ev[1].type = "start"
          /\ \A i \in 2..(n - 1) : ev[i].type = "token"
          /\ ev[n].content = TokenContents(ev)
          /\ Cardinality(us) = 1 /\ Cardinality(as) = 1
          /\ \A i \in us, j \in as :
               /\ i < j
               /\ chatMessages[resp.session][j].content = ev[n].content

\* a stream of two different tokens completed in a session that was empty:
\* the session holds the user message followed by the assistant message
C27_Witness ==
  /\ Completed(resp)
  /\ resp.events[Len(resp.events)].content = <<"a", "b">>
  /\ chatMessages[resp.session] =
       <<[role |-> "user", content |-> <<"q">>, rid |-> resp.rid],
         [role |-> "assistant", content |-> <<"a", "b">>, rid |-> resp.rid]>>

====
